---- MODULE Spec2Model ----
(***************************************************************************)
(* A model of domubus: the handler registry (handlers.py), the dispatch    *)
(* paths of the EventBus (bus.py), the JSONL log (persistence.py) and the  *)
(* polling FileWatcher (watcher.py).                                       *)
(*                                                                         *)
(* One EventBus is modelled together with the asyncio event loop it runs   *)
(* on.  The loop is cooperative: a task runs until it awaits, so the       *)
(* variable cur names who holds the loop (a dispatch, or the watcher's     *)
(* poll cycle) and every other operation of the process waits for cur = 0. *)
(* A dispatch gives the loop up only at the await of an asynchronous       *)
(* handler (bus.py line 232).  Sibling processes write to the log file at  *)
(* any time.                                                               *)
(***************************************************************************)
EXTENDS Integers, Sequences, FiniteSets, TLC

\* ------------------------------------------------------------------ bounds
MaxHandlers == 2        \* subscribe calls in one behaviour
MaxEmits == 2           \* dispatches (emit_async, emit_sync, external) in one behaviour
MaxFileLen == 6         \* the length of the log file, in chunks
HistoryLimit == 2       \* the history_limit the bus was constructed with
MaxRecorded == 4        \* records put into the history between two clear_history
MaxThreads == 2         \* the threads that call one bus at the same time
MaxKept == 2            \* the largest max_events a JSONLPersistence is constructed with

\* JSONLPersistence(persistence_path) is built with the default max_events
DefaultMaxEvents == 10000

WILDCARD == "*"
EventNames == {"x", "y"}
Priorities == {0, 1, 2}
\* filter_fn: absent, a predicate that accepts events with v = 1, a predicate that raises
FilterKinds == {"none", "v1", "raise"}
ProcessId == "p1"       \* this bus's process_id
OtherId == "p2"         \* the process_id of a sibling process
Tasks == 1..MaxEmits
Threads == 1..MaxThreads
Watcher == MaxEmits + 1 \* the value of cur while the watcher's poll cycle holds the loop
NoEvent == [event_type |-> "", v |-> 0, id |-> 0, source_process |-> ""]
\* a line of the log that is JSON but no object, as json.loads returns it
ScalarValue == [event_type |-> "", v |-> 0, id |-> 0, source_process |-> "scalar"]

VARIABLES
  handlers,           \* HandlerRegistry._handlers: event name -> list of entries
  wildcard_handlers,  \* HandlerRegistry._wildcard_handlers
  nextId,             \* the next handler id uuid4() will give (ids are never reused)
  ret,                \* what the last unsubscribe call was given and returned
  history,            \* EventBus._history, a deque(maxlen = history_limit)
  recorded,           \* every record appended to the history since it was last cleared
  nextEv,             \* the next event id uuid4() will give
  error_callback,     \* whether the bus was constructed with an error callback
  persistence,        \* whether the bus was constructed with a persistence_path
  task,               \* the dispatches: task[t] is the frame of dispatch t
  cur,                \* who holds the event loop, 0 when nobody does
  file,               \* the content of the log file, a sequence of chunks
  file_exists,        \* whether the log file exists
  log_open,           \* JSONLPersistence._file is not None
  store,              \* the JSONLPersistence object: its options, what its handle has
                      \* buffered, and what its last call was and returned
  watcher,            \* FileWatcher._position and FileWatcher._running
  wq,                 \* the lines the running poll cycle has read and not yet processed
  delivered,          \* the records the watcher has handed to its on_event callback
  lock,               \* EventBus._lock: the thread that holds it, 0 when none does
  thr,                \* the threads that call the bus: thr[th] is the call thread th is in
  result              \* the last call of the bus whose outcome is kept: what it was given,
                      \* what it returned, and the exception it raised to its caller

regVars == <<handlers, wildcard_handlers, nextId, ret>>
histVars == <<history, recorded>>
confVars == <<error_callback, persistence>>
fileVars == <<file, file_exists, log_open, store>>
watchVars == <<watcher, wq, delivered>>
callVars == <<lock, thr, result>>
vars == <<handlers, wildcard_handlers, nextId, ret, history, recorded, nextEv,
          error_callback, persistence, task, cur, file, file_exists, log_open,
          store, watcher, wq, delivered, lock, thr, result>>

\* ---------------------------------------------------------------- helpers
RemoveAt(s, i) == SubSeq(s, 1, i - 1) \o SubSeq(s, i + 1, Len(s))

Ids(s) == {s[i].id : i \in 1..Len(s)}

IndexOfId(s, id) == CHOOSE i \in 1..Len(s) : s[i].id = id /\ \A j \in 1..(i - 1) : s[j].id # id

LastN(s, n) == IF Len(s) <= n THEN s ELSE SubSeq(s, Len(s) - n + 1, Len(s))

\* a sort that is not stable: an element goes in front of the elements of its priority
InsertByPriorityUnstable(s, e) ==
  LET k == Cardinality({i \in 1..Len(s) : s[i].priority > e.priority})
  IN  SubSeq(s, 1, k) \o <<e>> \o SubSeq(s, k + 1, Len(s))

\* list.sort(key=lambda h: -h.priority) and sorted(...): Python's sort is stable, so an
\* element goes behind every element whose priority is at least its own.
InsertByPriority(s, e) ==
  LET k == Cardinality({i \in 1..Len(s) : s[i].priority >= e.priority})
  IN  SubSeq(s, 1, k) \o <<e>> \o SubSeq(s, k + 1, Len(s))

RECURSIVE SortByPriority(_)
SortByPriority(s) ==
  IF s = <<>> THEN <<>>
  ELSE InsertByPriority(SortByPriority(SubSeq(s, 1, Len(s) - 1)), s[Len(s)])

\* a bounded buffer that refuses the new record when it is full
DequeAppendKeepOldest(h, r, limit) ==
  IF limit = 0 THEN <<>>
  ELSE IF Len(h) >= limit THEN h
  ELSE Append(h, r)

\* deque(maxlen = limit).append(r)
DequeAppend(h, r, limit) ==
  IF limit = 0 THEN <<>>
  ELSE IF Len(h) >= limit THEN Append(Tail(h), r)
  ELSE Append(h, r)

RECURSIVE DequeExtend(_, _, _)
DequeExtend(h, rs, limit) ==
  IF rs = <<>> THEN h ELSE DequeExtend(DequeAppend(h, rs[1], limit), Tail(rs), limit)

\* --------------------------------------------------------------- registry
\* a subscribe that appends and leaves out the sort
SubscribeSpecificUnsorted(hs, e) == [hs EXCEPT ![e.event_type] = Append(@, e)]

\* HandlerRegistry.subscribe: the lists after the call
SubscribeSpecific(hs, e) == [hs EXCEPT ![e.event_type] = SortByPriority(Append(@, e))]

SubscribeWildcard(ws, e) == SortByPriority(Append(ws, e))

\* HandlerRegistry.unsubscribe: the first list that holds the id loses its first match
UnsubscribeFound(hs, ws, id) ==
  (\E n \in EventNames : id \in Ids(hs[n])) \/ id \in Ids(ws)

UnsubscribeSpecific(hs, id) ==
  IF \E n \in EventNames : id \in Ids(hs[n])
  THEN LET n == CHOOSE m \in EventNames : id \in Ids(hs[m])
       IN  [hs EXCEPT ![n] = RemoveAt(@, IndexOfId(@, id))]
  ELSE hs

\* an unsubscribe that takes the first wildcard handler when it does not find the id
UnsubscribeWildcardFirst(hs, ws, id) ==
  IF \E n \in EventNames : id \in Ids(hs[n]) THEN ws
  ELSE IF id \in Ids(ws) THEN RemoveAt(ws, IndexOfId(ws, id))
  ELSE IF ws # <<>> THEN Tail(ws)
  ELSE ws

UnsubscribeWildcard(hs, ws, id) ==
  IF (\E n \in EventNames : id \in Ids(hs[n])) \/ id \notin Ids(ws)
  THEN ws
  ELSE RemoveAt(ws, IndexOfId(ws, id))

\* a get_handlers that leaves out the sort of the merged list
get_handlers_unsorted(hs, ws, event_type) ==
  (IF event_type \in EventNames THEN hs[event_type] ELSE <<>>) \o ws

\* HandlerRegistry.get_handlers
get_handlers(hs, ws, event_type) ==
  SortByPriority((IF event_type \in EventNames THEN hs[event_type] ELSE <<>>) \o ws)

\* HandlerRegistry.handler_count(None)
handler_count == Len(wildcard_handlers) +
  Cardinality({<<n, i>> \in EventNames \X (1..MaxHandlers) : i <= Len(handlers[n])})

Registered == UNION {Ids(handlers[n]) : n \in EventNames} \cup Ids(wildcard_handlers)

\* HandlerRegistry.handler_count(event_type) for a name
handler_count_of(event_type) ==
  IF event_type = WILDCARD THEN Len(wildcard_handlers)
  ELSE IF event_type \in EventNames THEN Len(handlers[event_type])
  ELSE 0

\* the registry after a dispatch has unsubscribed the ids in rm, one after the other
RECURSIVE RemoveAll(_, _, _)
RemoveAll(hs, ws, rm) ==
  IF rm = <<>> THEN <<hs, ws>>
  ELSE RemoveAll(UnsubscribeSpecific(hs, rm[1]), UnsubscribeWildcard(hs, ws, rm[1]), Tail(rm))

\* ------------------------------------------------------------ the log file
\* The file is a sequence of chunks.  json.dumps writes a record as two chunks, so
\* that a line can be cut in the middle; Junk is text that is not JSON, Scalar is a
\* JSON value that is no object, Newline ends a line.
HeadOf(r) == [k |-> "head", r |-> r]
TailOf(r) == [k |-> "tail", r |-> r]
Newline == [k |-> "nl", r |-> NoEvent]
Junk == [k |-> "junk", r |-> NoEvent]
Scalar == [k |-> "scalar", r |-> NoEvent]
\* bytes that are not UTF-8: reading them in text mode raises UnicodeDecodeError
BadBytes == [k |-> "bad", r |-> NoEvent]

\* open(path, encoding="utf-8") and read: whether the text can be decoded
Decodes(c) == \A i \in 1..Len(c) : c[i] # BadBytes

\* the ids of the records that are in the file, whole or in part
IdsIn(c) == {c[i].r.id : i \in {j \in 1..Len(c) : c[j].k = "head"}}

\* json.dumps(event, separators=(",", ":"), default=str) + "\n"
Line(r) == <<HeadOf(r), TailOf(r), Newline>>

\* str.splitlines(), and the iteration over the lines of a file
RECURSIVE SplitLines(_)
SplitLines(c) ==
  IF c = <<>> THEN <<>>
  ELSE IF \E i \in 1..Len(c) : c[i] = Newline
       THEN LET i == CHOOSE j \in 1..Len(c) :
                       c[j] = Newline /\ \A m \in 1..(j - 1) : c[m] # Newline
            IN  <<SubSeq(c, 1, i - 1)>> \o SplitLines(SubSeq(c, i + 1, Len(c)))
       ELSE <<c>>

\* json.loads(line) of a line that is not blank
Loads(line) ==
  IF Len(line) = 2 /\ line[1].k = "head" /\ line[2] = TailOf(line[1].r)
  THEN [ok |-> "dict", value |-> line[1].r]
  ELSE IF line = <<Scalar>> THEN [ok |-> "scalar", value |-> ScalarValue]
  ELSE [ok |-> "error", value |-> NoEvent]

\* the loop of JSONLPersistence.load: blank and unparsable lines are passed over
RECURSIVE LoadLines(_)
LoadLines(lines) ==
  IF lines = <<>> THEN <<>>
  ELSE (IF lines[1] # <<>> /\ Loads(lines[1]).ok # "error"
        THEN <<Loads(lines[1]).value>> ELSE <<>>) \o LoadLines(Tail(lines))

\* JSONLPersistence.load: `events[-self.max_events:]` is the whole list for max_events = 0
load(f, exists, max_events) ==
  IF ~exists THEN <<>>
  ELSE IF max_events = 0 THEN LoadLines(SplitLines(f))
  ELSE LastN(LoadLines(SplitLines(f)), max_events)

\* a watcher that takes every record for its own
FromEveryProcess(r, process_id) == TRUE

\* a watcher that takes no record for its own
FromNoProcess(r, process_id) == FALSE

\* `if event.get("_source_process") == self._process_id: continue` of the watcher
FromThisProcess(r, process_id) == r.source_process = process_id

\* ---------------------------------------------------------------- frames
IdleTask == [pc |-> "idle", kind |-> "", loop |-> FALSE, caller |-> 0, ev |-> NoEvent,
             hs |-> <<>>, idx |-> 1, rm |-> <<>>, log |-> <<>>, errs |-> <<>>]

Call(id) == [h |-> id, ph |-> "call"]
Return(id) == [h |-> id, ph |-> "return"]

InFlight(t) == task[t].pc \in {"run", "await"}
Current(t) == task[t].hs[task[t].idx]
NextTask(t) == task[t].pc = "idle" /\ \A u \in 1..(t - 1) : task[u].pc # "idle"

\* no call whose outcome is kept has been made
NoResult == [call |-> "none", raised |-> "none", args |-> <<>>, value |-> <<>>]

\* get_history called without an event type
NoName == "none"

\* `[e for e in events if e.get("event_type") == event_type]`
RECURSIVE ByName(_, _)
ByName(events, event_type) ==
  IF events = <<>> THEN <<>>
  ELSE (IF events[1].event_type = event_type THEN <<events[1]>> ELSE <<>>)
         \o ByName(Tail(events), event_type)

\* EventBus.get_history: `if event_type:` and `if limit:` are false for None, and the
\* second for 0 as well; limited says whether a limit was given
GetHistory(h, event_type, limited, limit) ==
  LET events == IF event_type # NoName THEN ByName(h, event_type) ELSE h
  IN  IF limited /\ limit # 0 THEN LastN(events, limit) ELSE events

\* a dictionary view that keeps the origin the event brought along
EventDictKeepsOrigin(ev, source) ==
  [event_type |-> ev.event_type, v |-> ev.v, id |-> ev.id,
   source_process |-> IF ev.source_process # "" THEN ev.source_process ELSE source]

\* the record an emit appends: event.to_dict() with _source_process set (bus.py 208-211)
EventDict(ev, source) == [event_type |-> ev.event_type, v |-> ev.v, id |-> ev.id,
                          source_process |-> source]

\* a loop that goes on to the callback whatever the filter returns
FilterAcceptsAlways(h, ev) == h.filt \in {"none", "v1"}

\* filter_fn(event) returns true, or there is no filter_fn
FilterAccepts(h, ev) == h.filt = "none" \/ (h.filt = "v1" /\ ev.v = 1)

\* `if handler.filter_fn and not handler.filter_fn(event): continue`
FilterRejects(h, ev) == h.filt = "v1" /\ ev.v # 1

\* an emit_sync that passes over no handler for being asynchronous
SkippedAsAsyncNever(kind, h) == FALSE

\* `if handler.is_async: continue` of emit_sync, which comes before the filter
SkippedAsAsync(kind, h) == kind = "sync" /\ h.isAsync

\* whether the invoke branch of the loop body calls handler.callback(event): the
\* external path calls an asynchronous callback only to hand its coroutine to
\* loop.create_task, and get_running_loop raises when no loop runs (bus.py 439-445)
CallsCallback(kind, loop, h) == ~(kind = "ext" /\ h.isAsync /\ ~loop)

\* `if handler.once: handlers_to_remove.append(handler.id)` behind the invoke branch
MarkedForRemoval(kind, loop, h) == h.once

\* an except clause that calls the error callback without the `if`
ErrorCallsUnguarded(h, ev, configured) ==
  IF h.raises THEN <<[h |-> h.id, ev |-> ev.id]>> ELSE <<>>

\* `except Exception as e: if self._error_callback: self._error_callback(e, event, cb)`
ErrorCalls(h, ev, configured) ==
  IF h.raises /\ configured THEN <<[h |-> h.id, ev |-> ev.id]>> ELSE <<>>

\* the frame of a dispatch that has resolved its handlers (bus.py 220-221)
StartFrame(kind, loop, caller, ev) ==
  [pc |-> "run", kind |-> kind, loop |-> loop, caller |-> caller, ev |-> ev,
   hs |-> get_handlers(handlers, wildcard_handlers, ev.event_type),
   idx |-> 1, rm |-> <<>>, log |-> <<>>, errs |-> <<>>]

\* an emit that goes to its handlers without recording the event
RecordNothing(r) == UNCHANGED <<histVars, fileVars>>

\* `self._history.append(event_dict)` and `self._persistence.append(event_dict)`
Record(r) ==
  /\ history' = DequeAppend(history, r, HistoryLimit)
  /\ recorded' = Append(recorded, r)
  /\ IF persistence
     THEN /\ Len(file) + Len(Line(r)) <= MaxFileLen
          /\ file' = file \o Line(r)
          /\ file_exists' = TRUE
          /\ log_open' = TRUE
          /\ UNCHANGED store
     ELSE UNCHANGED fileVars

\* ------------------------------------------------------------- bus calls
\* EventBus.subscribe: HandlerRegistry.subscribe under the lock
Subscribe(event_type, priority, once, filt, isAsync, raises) ==
  /\ cur = 0
  /\ nextId <= MaxHandlers
  /\ LET e == [id |-> nextId, event_type |-> event_type, priority |-> priority,
               once |-> once, filt |-> filt, isAsync |-> isAsync, raises |-> raises]
     IN  IF event_type = WILDCARD
         THEN /\ wildcard_handlers' = SubscribeWildcard(wildcard_handlers, e)
              /\ UNCHANGED handlers
         ELSE /\ handlers' = SubscribeSpecific(handlers, e)
              /\ UNCHANGED wildcard_handlers
  /\ nextId' = nextId + 1
  /\ UNCHANGED <<ret, histVars, nextEv, confVars, callVars, task, cur, fileVars, watchVars>>

\* EventBus.unsubscribe: HandlerRegistry.unsubscribe under the lock
Unsubscribe(id) ==
  /\ cur = 0
  /\ handlers' = UnsubscribeSpecific(handlers, id)
  /\ wildcard_handlers' = UnsubscribeWildcard(handlers, wildcard_handlers, id)
  /\ ret' = [id |-> id, value |-> UnsubscribeFound(handlers, wildcard_handlers, id)]
  /\ UNCHANGED <<nextId, histVars, nextEv, confVars, callVars, task, cur, fileVars, watchVars>>

\* EventBus.clear_handlers
clear_handlers ==
  /\ cur = 0
  /\ Registered # {}
  /\ handlers' = [n \in EventNames |-> <<>>]
  /\ wildcard_handlers' = <<>>
  /\ UNCHANGED <<nextId, ret, histVars, nextEv, confVars, callVars, task, cur, fileVars, watchVars>>

\* EventBus.clear_history
clear_history ==
  /\ cur = 0
  /\ history # <<>>
  /\ history' = <<>>
  /\ recorded' = <<>>
  /\ UNCHANGED <<regVars, nextEv, confVars, callVars, task, cur, fileVars, watchVars>>

\* EventBus.__enter__ and __aenter__: open the log and load it into the history
enter ==
  /\ cur = 0
  /\ persistence
  /\ ~file_exists \/ Decodes(file)
  /\ Len(recorded) + Len(load(file, file_exists, DefaultMaxEvents)) <= MaxRecorded
  /\ log_open' = TRUE
  /\ file_exists' = TRUE
  /\ history' = DequeExtend(history, load(file, file_exists, DefaultMaxEvents), HistoryLimit)
  /\ recorded' = recorded \o load(file, file_exists, DefaultMaxEvents)
  /\ UNCHANGED <<regVars, nextEv, confVars, callVars, task, cur, file, store, watchVars>>

\* EventBus.__enter__ and __aenter__ on a log that is no UTF-8 text: open() has opened
\* the handle, load() raises UnicodeDecodeError from its read loop before it returns a
\* list, and the exception leaves __enter__; __exit__ is not called for it
enter_raise ==
  /\ cur = 0
  /\ persistence
  /\ file_exists
  /\ ~Decodes(file)
  /\ log_open' = TRUE
  /\ result' = [call |-> "enter", raised |-> "UnicodeDecodeError", args |-> <<>>,
                value |-> <<>>]
  /\ UNCHANGED <<regVars, histVars, nextEv, confVars, lock, thr, task, cur, file,
                 file_exists, store, watchVars>>

\* EventBus.__exit__ and __aexit__
exit ==
  /\ cur = 0
  /\ persistence
  /\ log_open
  /\ log_open' = FALSE
  /\ UNCHANGED <<regVars, histVars, nextEv, confVars, callVars, task, cur, file, file_exists, store, watchVars>>

\* what is kept of an emit: of an event whose own dictionary view carries an origin,
\* that view and the record the emit appended
Emitted(e, ev) ==
  IF e.source_process = "" THEN result
  ELSE [call |-> "emit", raised |-> "none", args |-> <<e>>, value |-> <<ev>>]

\* an emit whose append raises, which goes on to its handler loop all the same
emit_raise_swallowed(event_type, v, written) ==
  /\ cur = 0
  /\ persistence
  /\ nextEv <= MaxRecorded
  /\ \E t \in Tasks :
       /\ NextTask(t)
       /\ LET ev == EventDict([event_type |-> event_type, v |-> v, id |-> nextEv,
                               source_process |-> ""], ProcessId)
          IN  /\ history' = DequeAppend(history, ev, HistoryLimit)
              /\ recorded' = Append(recorded, ev)
              /\ task' = [task EXCEPT ![t] = StartFrame("sync", FALSE, 0, ev)]
              /\ result' = [call |-> "emit", raised |-> "none", args |-> <<>>, value |-> <<ev>>]
       /\ cur' = t
  /\ nextEv' = nextEv + 1
  /\ UNCHANGED <<regVars, confVars, lock, thr, fileVars, watchVars>>

\* emit_async or emit_sync whose self._persistence.append raises OSError, from open,
\* write, flush or fsync (persistence.py 70-78): the record is in the history, the
\* handle is open unless open raised, of the line the first `written` chunks have
\* reached the file, and the exception leaves the with block and the emit
\* (bus.py 214-217, 293-296)
emit_raise(event_type, v, written) ==
  /\ cur = 0
  /\ persistence
  /\ nextEv <= MaxRecorded
  /\ Len(file) + written <= MaxFileLen
  /\ LET ev == EventDict([event_type |-> event_type, v |-> v, id |-> nextEv,
                          source_process |-> ""], ProcessId)
     IN  /\ history' = DequeAppend(history, ev, HistoryLimit)
         /\ recorded' = Append(recorded, ev)
         /\ file' = file \o SubSeq(Line(ev), 1, written)
         /\ result' = [call |-> "emit", raised |-> "OSError", args |-> <<>>, value |-> <<ev>>]
  /\ \E opened \in BOOLEAN :
       /\ log_open => opened
       /\ written > 0 => opened
       /\ log_open' = opened
       /\ file_exists' = (file_exists \/ opened)
  /\ nextEv' = nextEv + 1
  /\ UNCHANGED <<regVars, confVars, lock, thr, task, cur, store, watchVars>>

\* EventBus.get_history
get_history(event_type, limited, limit) ==
  /\ cur = 0
  /\ result' = [call |-> "get_history", raised |-> "none",
                args |-> <<event_type, limited, limit>>,
                value |-> GetHistory(history, event_type, limited, limit)]
  /\ UNCHANGED <<regVars, histVars, nextEv, confVars, lock, thr, task, cur, fileVars,
                 watchVars>>

\* EventBus.emit_async up to its handler loop (bus.py 203-221)
emit_async_event(t, e) ==
  /\ cur = 0
  /\ NextTask(t)
  /\ LET ev == EventDict([event_type |-> e.event_type, v |-> e.v, id |-> nextEv,
                          source_process |-> e.source_process], ProcessId)
     IN  /\ Record(ev)
         /\ task' = [task EXCEPT ![t] = StartFrame("async", TRUE, 0, ev)]
         /\ result' = Emitted(e, ev)
  /\ nextEv' = nextEv + 1
  /\ cur' = t
  /\ UNCHANGED <<regVars, confVars, lock, thr, watchVars>>

\* emit_async of a string: `event = StringEvent(event_type=event, data=data or {})`
emit_async(t, event_type, v) ==
  emit_async_event(t, [event_type |-> event_type, v |-> v, source_process |-> ""])

\* EventBus.emit_sync up to its handler loop (bus.py 282-300)
emit_sync_event(t, e) ==
  /\ cur = 0
  /\ NextTask(t)
  /\ LET ev == EventDict([event_type |-> e.event_type, v |-> e.v, id |-> nextEv,
                          source_process |-> e.source_process], ProcessId)
     IN  /\ Record(ev)
         /\ task' = [task EXCEPT ![t] = StartFrame("sync", FALSE, 0, ev)]
         /\ result' = Emitted(e, ev)
  /\ nextEv' = nextEv + 1
  /\ cur' = t
  /\ UNCHANGED <<regVars, confVars, lock, thr, watchVars>>

\* emit_sync of a string: `event = StringEvent(event_type=event, data=data or {})`
emit_sync(t, event_type, v) ==
  emit_sync_event(t, [event_type |-> event_type, v |-> v, source_process |-> ""])

\* EventBus._handle_external_event up to its handler loop (bus.py 402-432), called
\* with a record of a sibling process; loop says whether an event loop is running
handle_external_event(t, event_type, v, loop) ==
  /\ cur = 0
  /\ NextTask(t)
  /\ LET ev == EventDict([event_type |-> event_type, v |-> v, id |-> nextEv], OtherId)
     IN  /\ history' = DequeAppend(history, ev, HistoryLimit)
         /\ recorded' = Append(recorded, ev)
         /\ task' = [task EXCEPT ![t] = StartFrame("ext", loop, 0, ev)]
  /\ nextEv' = nextEv + 1
  /\ cur' = t
  /\ UNCHANGED <<regVars, confVars, callVars, fileVars, watchVars>>

\* ------------------------------------------------------ the handler loop
AtHandler(t) ==
  /\ cur = t
  /\ task[t].pc = "run"
  /\ task[t].idx <= Len(task[t].hs)

\* a loop that stays at the handler it has just called
AfterInvokeStays(f, h, raised) ==
  [f EXCEPT !.errs = @ \o (IF raised THEN ErrorCalls(h, f.ev, error_callback) ELSE <<>>),
            !.rm = @ \o (IF MarkedForRemoval(f.kind, f.loop, h) THEN <<h.id>> ELSE <<>>)]

\* the frame after the loop body has run the invoke branch and the once check for h
AfterInvoke(f, h, raised) ==
  [f EXCEPT !.errs = @ \o (IF raised THEN ErrorCalls(h, f.ev, error_callback) ELSE <<>>),
            !.rm = @ \o (IF MarkedForRemoval(f.kind, f.loop, h) THEN <<h.id>> ELSE <<>>),
            !.idx = @ + 1]

\* filter_fn(event) raises: the call is outside the try block, so the dispatch ends
\* there, and with it the poll cycle that called it
DispatchFilterRaises(t) ==
  /\ AtHandler(t)
  /\ ~SkippedAsAsync(task[t].kind, Current(t))
  /\ Current(t).filt = "raise"
  /\ task' = [task EXCEPT ![t].pc = "failed"]
  /\ cur' = 0
  /\ wq' = IF task[t].caller = Watcher THEN <<>> ELSE wq
  /\ watcher' = IF task[t].caller = Watcher THEN [watcher EXCEPT !.mark = Len(file)]
                ELSE watcher
  /\ UNCHANGED <<regVars, histVars, nextEv, confVars, callVars, fileVars, delivered>>

\* `continue`: an asynchronous handler in emit_sync, or a filter that returns false
DispatchSkip(t) ==
  /\ AtHandler(t)
  /\ \/ SkippedAsAsync(task[t].kind, Current(t))
     \/ FilterRejects(Current(t), task[t].ev)
  /\ task' = [task EXCEPT ![t].idx = @ + 1]
  /\ UNCHANGED <<regVars, histVars, nextEv, confVars, callVars, cur, fileVars, watchVars>>

\* a handler whose call is over when the loop goes on: a synchronous callback, or on
\* the external path an asynchronous one, which is only scheduled (loop.create_task)
\* or passed over (no running loop)
DispatchInvoke(t) ==
  /\ AtHandler(t)
  /\ ~SkippedAsAsync(task[t].kind, Current(t))
  /\ FilterAccepts(Current(t), task[t].ev)
  /\ ~(task[t].kind = "async" /\ Current(t).isAsync)
  /\ LET h == Current(t)
         f == task[t]
         called == IF ~CallsCallback(f.kind, f.loop, h) THEN <<>>
                   ELSE IF h.isAsync THEN <<Call(h.id)>>
                   ELSE <<Call(h.id), Return(h.id)>>
     IN  task' = [task EXCEPT ![t] =
                    AfterInvoke([f EXCEPT !.log = @ \o called], h, ~h.isAsync)]
  /\ UNCHANGED <<regVars, histVars, nextEv, confVars, callVars, cur, fileVars, watchVars>>

\* emit_async calls an asynchronous handler and awaits its coroutine: the loop is free
DispatchAwait(t) ==
  /\ AtHandler(t)
  /\ FilterAccepts(Current(t), task[t].ev)
  /\ task[t].kind = "async" /\ Current(t).isAsync
  /\ task' = [task EXCEPT ![t].log = Append(@, Call(Current(t).id)), ![t].pc = "await"]
  /\ cur' = 0
  /\ UNCHANGED <<regVars, histVars, nextEv, confVars, callVars, fileVars, watchVars>>

\* the awaited coroutine has returned or raised, and emit_async takes the loop again
DispatchResume(t) ==
  /\ cur = 0
  /\ task[t].pc = "await"
  /\ LET h == Current(t)
         f == task[t]
     IN  task' = [task EXCEPT ![t] =
              AfterInvoke([f EXCEPT !.log = Append(@, Return(h.id)), !.pc = "run"], h, TRUE)]
  /\ cur' = t
  /\ UNCHANGED <<regVars, histVars, nextEv, confVars, callVars, fileVars, watchVars>>

\* `for handler_id in handlers_to_remove: self._registry.unsubscribe(handler_id)`
DispatchCleanup(t) ==
  /\ cur = t
  /\ task[t].pc = "run"
  /\ task[t].idx > Len(task[t].hs)
  /\ handlers' = RemoveAll(handlers, wildcard_handlers, task[t].rm)[1]
  /\ wildcard_handlers' = RemoveAll(handlers, wildcard_handlers, task[t].rm)[2]
  /\ task' = [task EXCEPT ![t].pc = "done"]
  /\ cur' = task[t].caller
  /\ UNCHANGED <<nextId, ret, histVars, nextEv, confVars, callVars, fileVars, watchVars>>

\* a synchronous callback of this dispatch has been called and the loop has not gone
\* on to the next handler: what the callback does to the bus happens here
InCallback(t) ==
  /\ cur = t
  /\ task[t].pc = "run"
  /\ task[t].log # <<>>
  /\ task[t].log[Len(task[t].log)].ph = "return"

\* what a callback did to the registry, in the trace of its dispatch
Subscribed(id) == [h |-> id, ph |-> "subscribe"]
Unsubscribed(id) == [h |-> id, ph |-> "unsubscribe"]

\* a callback calls bus.subscribe while its emit is in its handler loop
callback_subscribe(t, event_type, priority) ==
  /\ InCallback(t)
  /\ nextId <= MaxHandlers
  /\ handlers' = SubscribeSpecific(handlers,
        [id |-> nextId, event_type |-> event_type, priority |-> priority, once |-> FALSE,
         filt |-> "none", isAsync |-> FALSE, raises |-> FALSE])
  /\ nextId' = nextId + 1
  /\ task' = [task EXCEPT ![t].log = Append(@, Subscribed(nextId))]
  /\ UNCHANGED <<wildcard_handlers, ret, histVars, nextEv, confVars, callVars, cur, fileVars,
                 watchVars>>

\* an unsubscribe that takes the handler out of the list the emit is walking as well
callback_unsubscribe_live(t, id) ==
  /\ InCallback(t)
  /\ id \in Registered
  /\ handlers' = UnsubscribeSpecific(handlers, id)
  /\ wildcard_handlers' = UnsubscribeWildcard(handlers, wildcard_handlers, id)
  /\ ret' = [id |-> id, value |-> TRUE]
  /\ task' = [task EXCEPT ![t].log = Append(@, Unsubscribed(id)),
                          ![t].hs = SelectSeq(@, LAMBDA h :
                              h.id # id \/ \E i \in 1..Len(task[t].log) :
                                             task[t].log[i] = Call(id))]
  /\ UNCHANGED <<nextId, histVars, nextEv, confVars, callVars, cur, fileVars, watchVars>>

\* a callback calls bus.unsubscribe for a registered handler while its emit is in its
\* handler loop: the registry's lists change, the list of the emit is a copy
\* (handlers.py 143-146)
callback_unsubscribe(t, id) ==
  /\ InCallback(t)
  /\ id \in Registered
  /\ handlers' = UnsubscribeSpecific(handlers, id)
  /\ wildcard_handlers' = UnsubscribeWildcard(handlers, wildcard_handlers, id)
  /\ ret' = [id |-> id, value |-> UnsubscribeFound(handlers, wildcard_handlers, id)]
  /\ task' = [task EXCEPT ![t].log = Append(@, Unsubscribed(id))]
  /\ UNCHANGED <<nextId, histVars, nextEv, confVars, callVars, cur, fileVars, watchVars>>

\* ------------------------------------------------------------ the watcher
\* FileWatcher.__init__ (watcher.py 59-61); obj says whether a FileWatcher has been
\* built and is still held.  Of each run the model also keeps op, the last call
\* ("noop": a stop that found the watcher stopped), seen, the ids of the records in
\* the file when the run started, and mark, the length of the file when a poll
\* cycle of the run last raised (-1: none has).
NoWatcher == [position |-> 0, running |-> FALSE, obj |-> FALSE, op |-> "none",
              seen |-> {}, mark |-> -1]

\* a start that leaves the offset at the beginning of the file
StartedAtZero(w, exists, f) ==
  [position |-> 0, running |-> TRUE, obj |-> TRUE, op |-> "start",
   seen |-> IF exists THEN IdsIn(f) ELSE {}, mark |-> -1]

\* FileWatcher.start on a watcher that is not running
Started(w, exists, f) ==
  [position |-> IF exists THEN Len(f) ELSE (IF w.obj THEN w.position ELSE 0),
   running |-> TRUE, obj |-> TRUE, op |-> "start",
   seen |-> IF exists THEN IdsIn(f) ELSE {}, mark |-> -1]

\* a stop that forgets the offset of a watcher it finds stopped
StoppedReset(w) ==
  [w EXCEPT !.running = FALSE, !.position = IF w.running THEN w.position ELSE 0,
            !.op = IF w.running THEN "stop" ELSE "noop"]

\* FileWatcher.stop
Stopped(w) == [w EXCEPT !.running = FALSE, !.op = IF w.running THEN "stop" ELSE "noop"]

\* FileWatcher.start, called on the FileWatcher itself: a first start or a restart
watcher_start ==
  /\ cur = 0
  /\ ~watcher.running
  /\ watcher' = Started(watcher, file_exists, file)
  /\ delivered' = <<>>
  /\ UNCHANGED <<regVars, histVars, nextEv, confVars, callVars, task, cur, fileVars, wq>>

\* FileWatcher.stop, called on the FileWatcher itself
watcher_stop ==
  /\ cur = 0
  /\ watcher' = Stopped(watcher)
  /\ UNCHANGED <<regVars, histVars, nextEv, confVars, callVars, task, cur, fileVars, wq, delivered>>

\* EventBus.start_sync: a new FileWatcher, and FileWatcher.start on it
start_sync ==
  /\ cur = 0
  /\ persistence
  /\ ~watcher.running
  /\ watcher' = Started(NoWatcher, file_exists, file)
  /\ delivered' = <<>>
  /\ UNCHANGED <<regVars, histVars, nextEv, confVars, callVars, task, cur, fileVars, wq>>

\* a start_sync that does not ask for a persistence path
start_sync_unchecked ==
  /\ cur = 0
  /\ ~persistence
  /\ ~watcher.running
  /\ watcher' = [position |-> 0, running |-> TRUE, obj |-> TRUE, op |-> "start",
                 seen |-> {}, mark |-> -1]
  /\ result' = [call |-> "start_sync", raised |-> "none", args |-> <<>>, value |-> <<>>]
  /\ UNCHANGED <<regVars, histVars, nextEv, confVars, lock, thr, task, cur, fileVars, wq,
                 delivered>>

\* EventBus.start_sync on a bus without persistence_path: RuntimeError (bus.py 374-375)
start_sync_raise ==
  /\ cur = 0
  /\ ~persistence
  /\ result' = [call |-> "start_sync", raised |-> "RuntimeError", args |-> <<>>,
                value |-> <<>>]
  /\ UNCHANGED <<regVars, histVars, nextEv, confVars, lock, thr, task, cur, fileVars,
                 watchVars>>

\* EventBus.stop_sync: FileWatcher.stop if the bus holds a watcher, which it drops
stop_sync ==
  /\ cur = 0
  /\ watcher' = [Stopped(watcher) EXCEPT !.obj = FALSE]
  /\ UNCHANGED <<regVars, histVars, nextEv, confVars, callVars, task, cur, fileVars, wq, delivered>>

\* a poll task that stop has not cancelled
check_file_read_uncancelled ==
  /\ cur = 0
  /\ file_exists
  /\ Len(file) > watcher.position
  /\ Decodes(SubSeq(file, watcher.position + 1, Len(file)))
  /\ wq' = SplitLines(SubSeq(file, watcher.position + 1, Len(file)))
  /\ watcher' = [watcher EXCEPT !.position = Len(file)]
  /\ cur' = Watcher
  /\ UNCHANGED <<regVars, histVars, nextEv, confVars, callVars, task, fileVars, delivered>>

\* a poll cycle that processes the last line of what it has read, and no other
check_file_read_last_line ==
  /\ cur = 0
  /\ watcher.running
  /\ file_exists
  /\ Len(file) > watcher.position
  /\ Decodes(SubSeq(file, watcher.position + 1, Len(file)))
  /\ LET lines == SplitLines(SubSeq(file, watcher.position + 1, Len(file)))
     IN  wq' = <<lines[Len(lines)]>>
  /\ watcher' = [watcher EXCEPT !.position = Len(file)]
  /\ cur' = Watcher
  /\ UNCHANGED <<regVars, histVars, nextEv, confVars, callVars, task, fileVars, delivered>>

\* a poll cycle that goes back to the start of a file it finds shorter than its offset
check_file_read_rewinding ==
  /\ cur = 0
  /\ watcher.running
  /\ file_exists
  /\ file # <<>>
  /\ Len(file) # watcher.position
  /\ LET from == IF Len(file) < watcher.position THEN 0 ELSE watcher.position
     IN  /\ Decodes(SubSeq(file, from + 1, Len(file)))
         /\ wq' = SplitLines(SubSeq(file, from + 1, Len(file)))
  /\ watcher' = [watcher EXCEPT !.position = Len(file)]
  /\ cur' = Watcher
  /\ UNCHANGED <<regVars, histVars, nextEv, confVars, callVars, task, fileVars, delivered>>

\* FileWatcher._check_file down to `self._position = f.tell()` (watcher.py 98-109)
check_file_read ==
  /\ cur = 0
  /\ watcher.running
  /\ file_exists
  /\ Len(file) > watcher.position
  /\ Decodes(SubSeq(file, watcher.position + 1, Len(file)))
  /\ wq' = SplitLines(SubSeq(file, watcher.position + 1, Len(file)))
  /\ watcher' = [watcher EXCEPT !.position = Len(file)]
  /\ cur' = Watcher
  /\ UNCHANGED <<regVars, histVars, nextEv, confVars, callVars, task, fileVars, delivered>>

\* f.read() raises UnicodeDecodeError before `self._position = f.tell()`: the cycle is
\* over, swallowed by _watch_loop, and the offset is where it was
check_file_read_raise ==
  /\ cur = 0
  /\ watcher.running
  /\ file_exists
  /\ Len(file) > watcher.position
  /\ ~Decodes(SubSeq(file, watcher.position + 1, Len(file)))
  /\ watcher' = [watcher EXCEPT !.mark = Len(file)]
  /\ UNCHANGED <<regVars, histVars, nextEv, confVars, callVars, task, cur, fileVars, wq, delivered>>

\* the three `continue` of the line loop: a blank line, a line json.loads rejects, a
\* record of this process
check_file_skip ==
  /\ cur = Watcher
  /\ wq # <<>>
  /\ \/ Head(wq) = <<>>
     \/ Loads(Head(wq)).ok = "error"
     \/ Loads(Head(wq)).ok = "dict" /\ FromThisProcess(Loads(Head(wq)).value, ProcessId)
  /\ wq' = Tail(wq)
  /\ UNCHANGED <<regVars, histVars, nextEv, confVars, callVars, task, cur, fileVars, watcher, delivered>>

\* event.get on a JSON value that is no object raises AttributeError, which leaves
\* _check_file and is swallowed by _watch_loop (watcher.py 89-92)
check_file_raise ==
  /\ cur = Watcher
  /\ wq # <<>>
  /\ Head(wq) # <<>>
  /\ Loads(Head(wq)).ok = "scalar"
  /\ wq' = <<>>
  /\ cur' = 0
  /\ watcher' = [watcher EXCEPT !.mark = Len(file)]
  /\ UNCHANGED <<regVars, histVars, nextEv, confVars, callVars, task, fileVars, delivered>>

\* a delivery that also appends the record to the log, as an emit does
check_file_deliver_persisting(t) ==
  /\ cur = Watcher
  /\ wq # <<>>
  /\ Head(wq) # <<>>
  /\ Loads(Head(wq)).ok = "dict"
  /\ ~FromThisProcess(Loads(Head(wq)).value, ProcessId)
  /\ NextTask(t)
  /\ LET r == Loads(Head(wq)).value
     IN  /\ delivered' = Append(delivered, r)
         /\ history' = DequeAppend(history, r, HistoryLimit)
         /\ recorded' = Append(recorded, r)
         /\ file' = file \o Line(r)
         /\ task' = [task EXCEPT ![t] = StartFrame("ext", TRUE, Watcher, r)]
  /\ wq' = Tail(wq)
  /\ cur' = t
  /\ UNCHANGED <<regVars, nextEv, confVars, callVars, file_exists, log_open, store, watcher>>

\* `self._on_event(event)`: EventBus._handle_external_event inside the poll cycle
check_file_deliver(t) ==
  /\ cur = Watcher
  /\ wq # <<>>
  /\ Head(wq) # <<>>
  /\ Loads(Head(wq)).ok = "dict"
  /\ ~FromThisProcess(Loads(Head(wq)).value, ProcessId)
  /\ NextTask(t)
  /\ LET r == Loads(Head(wq)).value
     IN  /\ delivered' = Append(delivered, r)
         /\ history' = DequeAppend(history, r, HistoryLimit)
         /\ recorded' = Append(recorded, r)
         /\ task' = [task EXCEPT ![t] = StartFrame("ext", TRUE, Watcher, r)]
  /\ wq' = Tail(wq)
  /\ cur' = t
  /\ UNCHANGED <<regVars, nextEv, confVars, callVars, fileVars, watcher>>

\* the line loop is over: _check_file returns and _watch_loop sleeps
check_file_return ==
  /\ cur = Watcher
  /\ wq = <<>>
  /\ cur' = 0
  /\ UNCHANGED <<regVars, histVars, nextEv, confVars, callVars, task, fileVars, watchVars>>

\* what a sibling process may write at once: a record of its own or one tagged like
\* this process, text that is not a record, or the first part of a record
SiblingRecords == {[event_type |-> "x", v |-> 0, id |-> nextEv, source_process |-> s] :
                     s \in {OtherId, ProcessId}}

SiblingWrites ==
  {Line(r) : r \in SiblingRecords} \cup {<<HeadOf(r)>> : r \in SiblingRecords}
    \cup {<<Junk, Newline>>, <<Scalar, Newline>>, <<Newline>>}
    \cup (IF file # <<>> /\ file[Len(file)].k = "head"
          THEN {<<TailOf(file[Len(file)].r), Newline>>} ELSE {})

\* the whole lines among them
SiblingLines == {c \in SiblingWrites : c[Len(c)] = Newline /\ c[1].k \in {"head", "junk", "scalar"}}

\* the whole records of a sibling bus
SiblingEmits == {Line(r) : r \in {q \in SiblingRecords : q.source_process = OtherId}}

\* a whole record of the sibling, and the lines that make a poll cycle raise: JSON
\* that is no object, and bytes that are no text
SiblingFaults ==
  SiblingEmits \cup {<<Junk, Newline>>, <<Scalar, Newline>>, <<BadBytes, Newline>>}

\* the log file is deleted while this bus has no handle on it
sibling_unlink ==
  /\ file_exists
  /\ ~log_open
  /\ file' = <<>>
  /\ file_exists' = FALSE
  /\ UNCHANGED <<regVars, histVars, nextEv, confVars, callVars, task, cur, log_open, store, watchVars>>

\* a write of a sibling process to the shared log file
sibling_write(chunks) ==
  /\ Len(file) + Len(chunks) <= MaxFileLen
  /\ nextEv <= MaxFileLen + MaxEmits
  /\ file' = file \o chunks
  /\ file_exists' = TRUE
  /\ nextEv' = IF chunks[1].k = "head" THEN nextEv + 1 ELSE nextEv
  /\ UNCHANGED <<regVars, histVars, confVars, callVars, task, cur, log_open, store, watchVars>>

\* ------------------------------------------------------- JSONLPersistence
\* JSONLPersistence.__init__: the options, an empty buffer, no call made yet.  op, out,
\* raised and n are what the last call was, the list it returned, whether it raised,
\* and the number it returned; app are the records given to append so far.
NewStore(max_events, fsync) ==
  [max_events |-> max_events, fsync |-> fsync, buffer |-> <<>>, op |-> "none",
   out |-> <<>>, raised |-> FALSE, n |-> 0, app |-> <<>>]

\* json.dumps of a value json.loads returned, and the newline
Dump(value) == IF value = ScalarValue THEN <<Scalar, Newline>> ELSE Line(value)

RECURSIVE Dumps(_)
Dumps(values) == IF values = <<>> THEN <<>> ELSE Dump(values[1]) \o Dumps(Tail(values))

\* `self._file.write(line + "\n")` and `if self.fsync: self._file.flush(); os.fsync(...)`:
\* what is in the file and what is in the buffer of the handle afterwards
Appended(f, st, r) ==
  IF st.fsync THEN [file |-> f \o st.buffer \o Line(r), buffer |-> <<>>]
  ELSE [file |-> f, buffer |-> st.buffer \o Line(r)]

\* `kept = events[-self.max_events:]`: the whole list for max_events = 0
Kept(events, max_events) == IF max_events = 0 THEN events ELSE LastN(events, max_events)

\* JSONLPersistence.append
store_append(v) ==
  /\ nextEv <= MaxFileLen + MaxEmits
  /\ Len(file) + Len(store.buffer) + 3 <= MaxFileLen
  /\ LET r == [event_type |-> "x", v |-> v, id |-> nextEv, source_process |-> ProcessId]
     IN  /\ file' = Appended(file, store, r).file
         /\ store' = [store EXCEPT !.buffer = Appended(file, store, r).buffer,
                                   !.op = "append", !.out = <<>>, !.raised = FALSE,
                                   !.n = 0, !.app = Append(@, r)]
  /\ file_exists' = TRUE
  /\ log_open' = TRUE
  /\ nextEv' = nextEv + 1
  /\ UNCHANGED <<regVars, histVars, confVars, callVars, task, cur, watchVars>>

\* the buffer of the open handle is written out by the io layer
store_flush ==
  /\ log_open
  /\ store.buffer # <<>>
  /\ file' = file \o store.buffer
  /\ store' = [store EXCEPT !.buffer = <<>>]
  /\ UNCHANGED <<regVars, histVars, nextEv, confVars, callVars, task, cur, file_exists, log_open,
                 watchVars>>

\* JSONLPersistence.close
store_close ==
  /\ log_open
  /\ file' = file \o store.buffer
  /\ log_open' = FALSE
  /\ store' = [store EXCEPT !.buffer = <<>>, !.op = "close", !.out = <<>>,
                            !.raised = FALSE, !.n = 0]
  /\ UNCHANGED <<regVars, histVars, nextEv, confVars, callVars, task, cur, file_exists, watchVars>>

\* JSONLPersistence.load: reading bytes that are not text raises UnicodeDecodeError
store_load ==
  /\ store' = [store EXCEPT !.op = "load",
                            !.raised = file_exists /\ ~Decodes(file),
                            !.out = IF file_exists /\ ~Decodes(file) THEN <<>>
                                    ELSE load(file, file_exists, store.max_events),
                            !.n = 0]
  /\ UNCHANGED <<regVars, histVars, nextEv, confVars, callVars, task, cur, file, file_exists,
                 log_open, watchVars>>

\* JSONLPersistence.compact, its _load_all raising
store_compact_raise ==
  /\ file_exists
  /\ ~Decodes(file)
  /\ store' = [store EXCEPT !.op = "compact", !.raised = TRUE, !.out = <<>>, !.n = 0]
  /\ UNCHANGED <<regVars, histVars, nextEv, confVars, callVars, task, cur, file, file_exists,
                 log_open, watchVars>>

\* JSONLPersistence.compact: nothing to remove
store_compact_keep ==
  /\ ~file_exists \/ Decodes(file)
  /\ Len(load(file, file_exists, 0)) <= store.max_events
  /\ store' = [store EXCEPT !.op = "compact", !.raised = FALSE, !.out = <<>>, !.n = 0]
  /\ UNCHANGED <<regVars, histVars, nextEv, confVars, callVars, task, cur, file, file_exists,
                 log_open, watchVars>>

\* JSONLPersistence.compact: close, rewrite the file with the kept records, open
store_compact_rewrite ==
  /\ file_exists
  /\ Decodes(file)
  /\ Len(load(file, file_exists, 0)) > store.max_events
  /\ file' = Dumps(Kept(load(file, file_exists, 0), store.max_events))
  /\ log_open' = TRUE
  /\ store' = [store EXCEPT !.buffer = <<>>, !.op = "compact", !.raised = FALSE,
                            !.out = <<>>,
                            !.n = Len(load(file, file_exists, 0)) - store.max_events]
  /\ UNCHANGED <<regVars, histVars, nextEv, confVars, callVars, task, cur, file_exists, watchVars>>

\* JSONLPersistence.compact down to `kept = events[-self.max_events:]` (persistence.py
\* 126-131): the records are read from the file and held in the local `events`
store_compact_read ==
  /\ store.op # "compacting"
  /\ file_exists
  /\ Decodes(file)
  /\ Len(load(file, file_exists, 0)) > store.max_events
  /\ store' = [store EXCEPT !.op = "compacting", !.raised = FALSE, !.n = 0,
                            !.out = load(file, file_exists, 0)]
  /\ UNCHANGED <<regVars, histVars, nextEv, confVars, callVars, task, cur, file, file_exists,
                 log_open, watchVars>>

\* the rest of JSONLPersistence.compact (persistence.py 134-141): close, the file
\* opened with "w" and written from `kept`, open, return removed
store_compact_write ==
  /\ store.op = "compacting"
  /\ file' = Dumps(Kept(store.out, store.max_events))
  /\ file_exists' = TRUE
  /\ log_open' = TRUE
  /\ store' = [store EXCEPT !.buffer = <<>>, !.op = "compact", !.raised = FALSE,
                            !.out = <<>>, !.n = Len(store.out) - store.max_events]
  /\ UNCHANGED <<regVars, histVars, nextEv, confVars, callVars, task, cur, watchVars>>

\* JSONLPersistence.append of a sibling process, one whole line; the log may hold one
\* line more than this process's own appends fill
sibling_append(chunks) ==
  /\ Len(file) + Len(chunks) <= MaxFileLen + 3
  /\ nextEv <= MaxFileLen + MaxEmits
  /\ file' = file \o chunks
  /\ file_exists' = TRUE
  /\ nextEv' = nextEv + 1
  /\ UNCHANGED <<regVars, histVars, confVars, callVars, task, cur, log_open, store, watchVars>>

\* JSONLPersistence.compact of a sibling process whose max_events is smaller than the
\* number of records in the file: the file is rewritten with the last of them
sibling_compact(max_events) ==
  /\ file_exists
  /\ ~log_open
  /\ Decodes(file)
  /\ Len(load(file, file_exists, 0)) > max_events
  /\ file' = Dumps(Kept(load(file, file_exists, 0), max_events))
  /\ UNCHANGED <<regVars, histVars, nextEv, confVars, callVars, task, cur, file_exists,
                 log_open, store, watchVars>>

\* JSONLPersistence.clear of a sibling process: the file is unlinked, and open()
\* makes an empty one
sibling_clear ==
  /\ file_exists
  /\ ~log_open
  /\ file # <<>>
  /\ file' = <<>>
  /\ UNCHANGED <<regVars, histVars, nextEv, confVars, callVars, task, cur, file_exists,
                 log_open, store, watchVars>>

\* ------------------------------------------------------------- threads
\* A thread is in one call of the bus at a time.  op is the call, pc where the thread
\* stands in it: "lock" before `with self._lock:`, "held" inside it, "persist" between
\* the two appends of an emit, "mutating" inside a HandlerRegistry method that changes
\* the lists, "unlock" at the end of the with block, "dispatch" before the handler loop
\* of emit_sync, "remove" in the loop over handlers_to_remove.
IdleThread == [pc |-> "idle", op |-> "none", ev |-> NoEvent, id |-> 0, rm |-> <<>>]

\* a lock that every thread can take at any time
AcquirableAlways(l, th) == TRUE

\* threading.RLock: free, or held by the thread that asks
Acquirable(l, th) == l = 0 \/ l = th

IsOnce(h) == h.once

\* handlers_to_remove of an emit_sync whose handlers are synchronous and unfiltered
OnceIds(hs) == [k \in 1..Len(SelectSeq(hs, IsOnce)) |-> SelectSeq(hs, IsOnce)[k].id]

\* another thread is inside a method that changes the lists of the registry
Overlapping(th) == \E u \in Threads : u # th /\ thr[u].pc = "mutating"

\* the emits that have still to append their record to the log
PendingAppends ==
  Cardinality({th \in Threads : thr[th].op = "emit" /\ thr[th].pc \in {"lock", "held", "persist"}})

\* a thread calls subscribe, unsubscribe, clear_handlers or emit_sync
thread_call(th, op, id) ==
  /\ thr[th].pc = "idle"
  /\ op = "subscribe" => nextId + Cardinality({u \in Threads : thr[u].op = "subscribe"}) <= MaxHandlers
  /\ op = "emit" => /\ nextEv <= MaxFileLen + MaxEmits
                    /\ persistence => Len(file) + 3 * (PendingAppends + 1) <= MaxFileLen
  /\ thr' = [thr EXCEPT ![th] =
        [pc |-> "lock", op |-> op,
         ev |-> IF op = "emit"
                THEN EventDict([event_type |-> "x", v |-> 0, id |-> nextEv], ProcessId)
                ELSE NoEvent,
         id |-> IF op = "unsubscribe" THEN id ELSE 0, rm |-> <<>>]]
  /\ nextEv' = IF op = "emit" THEN nextEv + 1 ELSE nextEv
  /\ UNCHANGED <<regVars, histVars, confVars, task, cur, fileVars, watchVars, lock, result>>

\* `with self._lock:` is entered
thread_acquire(th) ==
  /\ thr[th].pc = "lock"
  /\ Acquirable(lock, th)
  /\ lock' = th
  /\ thr' = [thr EXCEPT ![th].pc = "held"]
  /\ UNCHANGED <<regVars, histVars, nextEv, confVars, task, cur, fileVars, watchVars, result>>

\* `self._history.append(event_dict)` of an emit (bus.py 215, 294)
thread_history(th) ==
  /\ thr[th].pc = "held"
  /\ thr[th].op = "emit"
  /\ history' = DequeAppend(history, thr[th].ev, HistoryLimit)
  /\ recorded' = Append(recorded, thr[th].ev)
  /\ thr' = [thr EXCEPT ![th].pc = "persist"]
  /\ UNCHANGED <<regVars, nextEv, confVars, task, cur, fileVars, watchVars, lock, result>>

\* `if self._persistence: self._persistence.append(event_dict)` (bus.py 216-217, 295-296)
thread_persist(th) ==
  /\ thr[th].pc = "persist"
  /\ IF persistence
     THEN /\ file' = file \o Line(thr[th].ev)
          /\ file_exists' = TRUE
          /\ log_open' = TRUE
          /\ UNCHANGED store
     ELSE UNCHANGED fileVars
  /\ thr' = [thr EXCEPT ![th].pc = "unlock"]
  /\ UNCHANGED <<regVars, histVars, nextEv, confVars, task, cur, watchVars, lock, result>>

\* a method of the registry that changes its lists is entered: under the lock by
\* subscribe, unsubscribe and clear_handlers (bus.py 141-142, 153-154, 357-358)
thread_mutate(th) ==
  /\ thr[th].pc = "held"
  /\ thr[th].op \in {"subscribe", "unsubscribe", "clear"}
  /\ thr' = [thr EXCEPT ![th].pc = "mutating"]
  /\ UNCHANGED <<regVars, histVars, nextEv, confVars, task, cur, fileVars, watchVars, lock, result>>

\* ... and without `with self._lock:` by the loop over handlers_to_remove
\* (bus.py 243-244, 321-322, 455-456)
thread_remove(th) ==
  /\ thr[th].pc = "remove"
  /\ thr[th].rm # <<>>
  /\ thr' = [thr EXCEPT ![th].pc = "mutating", ![th].id = Head(thr[th].rm),
                        ![th].rm = Tail(thr[th].rm)]
  /\ UNCHANGED <<regVars, histVars, nextEv, confVars, task, cur, fileVars, watchVars, lock, result>>

\* the method of the registry returns.  An unsubscribe that ran while another thread
\* was changing the lists may have looked at a list that other thread was sorting,
\* which is empty for the time of the sort: it then returns False and removes nothing.
thread_mutated(th) ==
  /\ thr[th].pc = "mutating"
  /\ \/ /\ thr[th].op = "subscribe"
        /\ handlers' = SubscribeSpecific(handlers,
              [id |-> nextId, event_type |-> "x", priority |-> 0, once |-> TRUE,
               filt |-> "none", isAsync |-> FALSE, raises |-> FALSE])
        /\ nextId' = nextId + 1
        /\ UNCHANGED <<wildcard_handlers, ret>>
     \/ /\ thr[th].op = "clear"
        /\ handlers' = [n \in EventNames |-> <<>>]
        /\ wildcard_handlers' = <<>>
        /\ UNCHANGED <<nextId, ret>>
     \/ /\ thr[th].op \in {"unsubscribe", "emit"}
        /\ \E seen \in (IF Overlapping(th) THEN BOOLEAN ELSE {TRUE}) :
             IF seen
             THEN /\ handlers' = UnsubscribeSpecific(handlers, thr[th].id)
                  /\ wildcard_handlers' = UnsubscribeWildcard(handlers, wildcard_handlers, thr[th].id)
                  /\ ret' = [id |-> thr[th].id,
                              value |-> UnsubscribeFound(handlers, wildcard_handlers, thr[th].id)]
             ELSE /\ ret' = [id |-> thr[th].id, value |-> FALSE]
                  /\ UNCHANGED <<handlers, wildcard_handlers>>
        /\ UNCHANGED nextId
  /\ thr' = [thr EXCEPT ![th].pc = IF thr[th].op = "emit" THEN "remove" ELSE "unlock"]
  /\ UNCHANGED <<histVars, nextEv, confVars, task, cur, fileVars, watchVars, lock, result>>

\* the with block is left
thread_release(th) ==
  /\ thr[th].pc = "unlock"
  /\ lock' = 0
  /\ thr' = [thr EXCEPT ![th] = IF thr[th].op = "emit" THEN [@ EXCEPT !.pc = "dispatch"]
                                 ELSE IdleThread]
  /\ UNCHANGED <<regVars, histVars, nextEv, confVars, task, cur, fileVars, watchVars, result>>

\* emit_sync resolves the handlers and runs its loop over them (bus.py 299-318)
thread_dispatch(th) ==
  /\ thr[th].pc = "dispatch"
  /\ thr' = [thr EXCEPT ![th].pc = "remove",
                        ![th].rm = OnceIds(get_handlers(handlers, wildcard_handlers,
                                                        thr[th].ev.event_type))]
  /\ UNCHANGED <<regVars, histVars, nextEv, confVars, task, cur, fileVars, watchVars, lock, result>>

\* the loop over handlers_to_remove is over and emit_sync returns
thread_return(th) ==
  /\ thr[th].pc = "remove"
  /\ thr[th].rm = <<>>
  /\ thr' = [thr EXCEPT ![th] = IdleThread]
  /\ UNCHANGED <<regVars, histVars, nextEv, confVars, task, cur, fileVars, watchVars, lock, result>>

\* ------------------------------------------------------------ behaviours
InitBus ==
  /\ handlers = [n \in EventNames |-> <<>>]
  /\ wildcard_handlers = <<>>
  /\ nextId = 1
  /\ ret = [id |-> 0, value |-> FALSE]
  /\ history = <<>>
  /\ recorded = <<>>
  /\ nextEv = 1
  /\ error_callback \in BOOLEAN
  /\ persistence \in BOOLEAN
  /\ task = [t \in Tasks |-> IdleTask]
  /\ cur = 0
  /\ file = <<>>
  /\ file_exists = FALSE
  /\ log_open = FALSE
  /\ watcher = NoWatcher
  /\ wq = <<>>
  /\ delivered = <<>>
  /\ lock = 0
  /\ thr = [th \in Threads |-> IdleThread]
  /\ result = NoResult

\* the bus builds its JSONLPersistence with the default options (bus.py 86)
Init == InitBus /\ store = NewStore(DefaultMaxEvents, TRUE)

Quiet == \A t \in Tasks : ~InFlight(t)

\* handlers of every priority, specific and wildcard, synchronous and asynchronous
NextOrder ==
  \/ \E n \in {"x", WILDCARD}, p \in Priorities, a \in BOOLEAN :
        Subscribe(n, p, FALSE, "none", a, FALSE)
  \/ \E t \in Tasks : emit_async(t, "x", 0)
  \/ \E t \in Tasks : emit_sync(t, "x", 0)
  \/ \E t \in Tasks : DispatchSkip(t)
  \/ \E t \in Tasks : DispatchInvoke(t)
  \/ \E t \in Tasks : DispatchAwait(t)
  \/ \E t \in Tasks : DispatchResume(t)
  \/ \E t \in Tasks : DispatchCleanup(t)

InitOrder == Init /\ persistence = FALSE /\ error_callback = FALSE

SpecOrder == InitOrder /\ [][NextOrder]_vars

\* the registry alone
NextRegistry ==
  \/ \E n \in EventNames \cup {WILDCARD}, p \in Priorities, o \in BOOLEAN :
        Subscribe(n, p, o, "none", FALSE, FALSE)
  \/ \E id \in 1..(MaxHandlers + 1) : Unsubscribe(id)
  \/ clear_handlers

InitRegistry == Init /\ persistence = FALSE /\ error_callback = FALSE

SpecRegistry == InitRegistry /\ [][NextRegistry]_vars

\* one-time handlers with every kind of filter, on the three dispatch paths
NextOnce ==
  \/ \E o \in BOOLEAN, f \in FilterKinds, a \in BOOLEAN : Subscribe("x", 0, o, f, a, FALSE)
  \/ \E t \in Tasks, v \in {0, 1} : emit_async(t, "x", v)
  \/ \E t \in Tasks, v \in {0, 1} : emit_sync(t, "x", v)
  \/ \E t \in Tasks, v \in {0, 1}, l \in BOOLEAN : handle_external_event(t, "x", v, l)
  \/ \E t \in Tasks : DispatchFilterRaises(t)
  \/ \E t \in Tasks : DispatchSkip(t)
  \/ \E t \in Tasks : DispatchInvoke(t)
  \/ \E t \in Tasks : DispatchAwait(t)
  \/ \E t \in Tasks : DispatchResume(t)
  \/ \E t \in Tasks : DispatchCleanup(t)

InitOnce == Init /\ persistence = FALSE /\ error_callback = FALSE

SpecOnce == InitOnce /\ [][NextOnce]_vars

\* the same, with every emit started after the one before it has returned or raised
NextSeq ==
  \/ \E o \in BOOLEAN, f \in FilterKinds, a \in BOOLEAN : Subscribe("x", 0, o, f, a, FALSE)
  \/ \E t \in Tasks, v \in {0, 1} : Quiet /\ emit_async(t, "x", v)
  \/ \E t \in Tasks, v \in {0, 1} : Quiet /\ emit_sync(t, "x", v)
  \/ \E t \in Tasks : DispatchFilterRaises(t)
  \/ \E t \in Tasks : DispatchSkip(t)
  \/ \E t \in Tasks : DispatchInvoke(t)
  \/ \E t \in Tasks : DispatchAwait(t)
  \/ \E t \in Tasks : DispatchResume(t)
  \/ \E t \in Tasks : DispatchCleanup(t)

InitSeq == Init /\ persistence = FALSE /\ error_callback = FALSE

SpecSeq == InitSeq /\ [][NextSeq]_vars

\* handlers with filters that accept or reject
NextFilter ==
  \/ \E o \in BOOLEAN, f \in {"none", "v1"}, a \in BOOLEAN : Subscribe("x", 0, o, f, a, FALSE)
  \/ \E t \in Tasks, v \in {0, 1} : emit_async(t, "x", v)
  \/ \E t \in Tasks, v \in {0, 1} : emit_sync(t, "x", v)
  \/ \E t \in Tasks : DispatchSkip(t)
  \/ \E t \in Tasks : DispatchInvoke(t)
  \/ \E t \in Tasks : DispatchAwait(t)
  \/ \E t \in Tasks : DispatchResume(t)
  \/ \E t \in Tasks : DispatchCleanup(t)

InitFilter == Init /\ persistence = FALSE /\ error_callback = FALSE

SpecFilter == InitFilter /\ [][NextFilter]_vars

\* handlers that raise during an emit, with and without an error callback
NextErrors ==
  \/ \E p \in {0, 1}, a \in BOOLEAN, r \in BOOLEAN : Subscribe("x", p, FALSE, "none", a, r)
  \/ \E t \in Tasks : emit_async(t, "x", 0)
  \/ \E t \in Tasks : emit_sync(t, "x", 0)
  \/ \E t \in Tasks : DispatchSkip(t)
  \/ \E t \in Tasks : DispatchInvoke(t)
  \/ \E t \in Tasks : DispatchAwait(t)
  \/ \E t \in Tasks : DispatchResume(t)
  \/ \E t \in Tasks : DispatchCleanup(t)

InitErrors == Init /\ persistence = FALSE

SpecErrors == InitErrors /\ [][NextErrors]_vars

\* a bus with a log file, its watcher, and a sibling process writing to the file
NextSync ==
  \/ Subscribe("x", 0, FALSE, "none", FALSE, FALSE)
  \/ \E t \in Tasks : emit_sync(t, "x", 0)
  \/ start_sync
  \/ stop_sync
  \/ check_file_read
  \/ check_file_skip
  \/ check_file_raise
  \/ \E t \in Tasks : check_file_deliver(t)
  \/ check_file_return
  \/ \E c \in SiblingWrites : sibling_write(c)
  \/ \E t \in Tasks : DispatchInvoke(t)
  \/ \E t \in Tasks : DispatchCleanup(t)

InitSync == Init /\ persistence = TRUE /\ error_callback = FALSE

SpecSync == InitSync /\ [][NextSync]_vars

\* every way a record enters the history: the three dispatch paths and the load on open
NextHistory ==
  \/ \E t \in Tasks : emit_async(t, "x", 0)
  \/ \E t \in Tasks : emit_sync(t, "x", 0)
  \/ \E t \in Tasks : handle_external_event(t, "x", 0, TRUE)
  \/ enter
  \/ exit
  \/ clear_history
  \/ \E c \in SiblingLines : sibling_write(c)
  \/ \E t \in Tasks : DispatchCleanup(t)

InitHistory == Init /\ persistence = TRUE /\ error_callback = FALSE

SpecHistory == InitHistory /\ [][NextHistory]_vars

\* two buses on one log, each with its watcher started: this bus and its sibling
\* write whole records only.  The bound on dispatches leaves a frame for every
\* record the watcher has still to deliver.
Pending ==
  IF ~watcher.running THEN 0
  ELSE Cardinality({i \in (watcher.position + 1)..Len(file) :
                      file[i].k = "head" /\ ~FromThisProcess(file[i].r, ProcessId)})
       + Cardinality({i \in 1..Len(wq) :
                        Loads(wq[i]).ok = "dict"
                          /\ ~FromThisProcess(Loads(wq[i]).value, ProcessId)})

Room == Cardinality({t \in Tasks : task[t].pc = "idle"}) > Pending

NextPair ==
  \/ Subscribe("x", 0, FALSE, "none", FALSE, FALSE)
  \/ \E t \in Tasks : Room /\ emit_sync(t, "x", 0)
  \/ start_sync
  \/ check_file_read
  \/ check_file_skip
  \/ \E t \in Tasks : check_file_deliver(t)
  \/ check_file_return
  \/ \E c \in SiblingEmits : Room /\ sibling_write(c)
  \/ \E t \in Tasks : DispatchInvoke(t)
  \/ \E t \in Tasks : DispatchCleanup(t)

InitPair == Init /\ persistence = TRUE /\ error_callback = FALSE

\* _watch_loop polls again after every sleep while the watcher runs, and the event
\* loop runs every step of a dispatch that has started
SpecPair ==
  /\ InitPair
  /\ [][NextPair]_vars
  /\ WF_vars(check_file_read)
  /\ WF_vars(check_file_skip)
  /\ WF_vars(\E t \in Tasks : check_file_deliver(t))
  /\ WF_vars(check_file_return)
  /\ WF_vars(\E t \in Tasks : DispatchInvoke(t))
  /\ WF_vars(\E t \in Tasks : DispatchCleanup(t))

\* a FileWatcher that is started, stopped and started again, by itself or through the
\* bus, on a file that siblings append whole records to and that is deleted
NextWatcher ==
  \/ Subscribe("x", 0, FALSE, "none", FALSE, FALSE)
  \/ watcher_start
  \/ watcher_stop
  \/ start_sync
  \/ stop_sync
  \/ check_file_read
  \/ check_file_skip
  \/ \E t \in Tasks : check_file_deliver(t)
  \/ check_file_return
  \/ \E r \in SiblingRecords : Room /\ sibling_write(Line(r))
  \/ sibling_unlink
  \/ \E t \in Tasks : DispatchInvoke(t)
  \/ \E t \in Tasks : DispatchCleanup(t)

InitWatcher == Init /\ persistence = TRUE /\ error_callback = FALSE

SpecWatcher == InitWatcher /\ [][NextWatcher]_vars

\* a running watcher on a file that receives lines which make a poll cycle raise, with
\* handlers whose filter raises; _watch_loop polls again after every sleep
NextFaults ==
  \/ \E f \in {"none", "raise"} : Subscribe("x", 0, FALSE, f, FALSE, FALSE)
  \/ start_sync
  \/ check_file_read
  \/ check_file_read_raise
  \/ check_file_skip
  \/ check_file_raise
  \/ \E t \in Tasks : check_file_deliver(t)
  \/ check_file_return
  \/ \E c \in SiblingFaults : Room /\ sibling_write(c)
  \/ \E t \in Tasks : DispatchFilterRaises(t)
  \/ \E t \in Tasks : DispatchInvoke(t)
  \/ \E t \in Tasks : DispatchCleanup(t)

InitFaults == Init /\ persistence = TRUE /\ error_callback = FALSE

SpecFaults ==
  /\ InitFaults
  /\ [][NextFaults]_vars
  /\ WF_vars(check_file_read)
  /\ WF_vars(check_file_read_raise)
  /\ WF_vars(check_file_skip)
  /\ WF_vars(check_file_raise)
  /\ WF_vars(\E t \in Tasks : check_file_deliver(t))
  /\ WF_vars(check_file_return)
  /\ WF_vars(\E t \in Tasks : DispatchFilterRaises(t))
  /\ WF_vars(\E t \in Tasks : DispatchInvoke(t))
  /\ WF_vars(\E t \in Tasks : DispatchCleanup(t))

\* a JSONLPersistence used on its own, with any max_events and either fsync option, on
\* a file that siblings append records, broken lines and bytes that are no text to
SiblingBytes ==
  SiblingEmits \cup {<<c[1]>> : c \in SiblingEmits}
    \cup {<<Junk, Newline>>, <<Scalar, Newline>>, <<Newline>>, <<BadBytes, Newline>>}

NextStore ==
  \/ store_append(0)
  \/ store_flush
  \/ store_close
  \/ store_load
  \/ store_compact_raise
  \/ store_compact_keep
  \/ store_compact_rewrite
  \/ \E c \in SiblingBytes : sibling_write(c)

InitStore ==
  /\ InitBus
  /\ persistence = FALSE
  /\ error_callback = FALSE
  /\ store \in {NewStore(m, f) : m \in 0..MaxKept, f \in BOOLEAN}

SpecStore == InitStore /\ [][NextStore]_vars

\* handlers that subscribe and unsubscribe handlers while an emit is under way: the
\* synchronous ones from inside their call, where they unsubscribe a handler that the
\* emit has still to call, the others while emit_async awaits
NextSnapshot ==
  \/ \E a \in BOOLEAN : Subscribe("x", 0, FALSE, "none", a, FALSE)
  \/ Registered # {} /\ cur = 0 /\ (\E t \in Tasks : task[t].pc = "await") /\ Unsubscribe(nextId - 1)
  \/ \E t \in Tasks : callback_subscribe(t, "x", 0)
  \/ \E t \in Tasks, id \in 1..MaxHandlers :
        /\ \E k \in 1..Len(task[t].hs) : k >= task[t].idx /\ task[t].hs[k].id = id
        /\ callback_unsubscribe(t, id)
  \/ \E t \in Tasks : emit_async(t, "x", 0)
  \/ \E t \in Tasks : emit_sync(t, "x", 0)
  \/ \E t \in Tasks : DispatchSkip(t)
  \/ \E t \in Tasks : DispatchInvoke(t)
  \/ \E t \in Tasks : DispatchAwait(t)
  \/ \E t \in Tasks : DispatchResume(t)
  \/ \E t \in Tasks : DispatchCleanup(t)

InitSnapshot == Init /\ persistence = FALSE /\ error_callback = FALSE

SpecSnapshot == InitSnapshot /\ [][NextSnapshot]_vars

\* emits with and without a log, whose history is cleared while emit_async awaits
NextRecord ==
  \/ \E a \in BOOLEAN : Subscribe("x", 0, FALSE, "none", a, FALSE)
  \/ \E t \in Tasks : emit_async(t, "x", 0)
  \/ \E t \in Tasks : emit_sync(t, "x", 0)
  \/ clear_history
  \/ \E t \in Tasks : DispatchSkip(t)
  \/ \E t \in Tasks : DispatchInvoke(t)
  \/ \E t \in Tasks : DispatchAwait(t)
  \/ \E t \in Tasks : DispatchResume(t)
  \/ \E t \in Tasks : DispatchCleanup(t)

InitRecord == Init /\ error_callback = FALSE

SpecRecord == InitRecord /\ [][NextRecord]_vars

\* a running watcher on a log to which a sibling appends its records whole or in two
\* writes, the line's first part and then its rest; _watch_loop polls again after
\* every sleep
SiblingParts ==
  {c \in SiblingWrites : c[1].k \in {"head", "tail"} /\ c[1].r.source_process = OtherId}

NextPartial ==
  \/ Subscribe("x", 0, FALSE, "none", FALSE, FALSE)
  \/ start_sync
  \/ check_file_read
  \/ check_file_skip
  \/ \E t \in Tasks : check_file_deliver(t)
  \/ check_file_return
  \/ \E c \in SiblingParts : Room /\ sibling_write(c)
  \/ \E t \in Tasks : DispatchInvoke(t)
  \/ \E t \in Tasks : DispatchCleanup(t)

InitPartial == Init /\ persistence = TRUE /\ error_callback = FALSE

SpecPartial ==
  /\ InitPartial
  /\ [][NextPartial]_vars
  /\ WF_vars(check_file_read)
  /\ WF_vars(check_file_skip)
  /\ WF_vars(\E t \in Tasks : check_file_deliver(t))
  /\ WF_vars(check_file_return)
  /\ WF_vars(\E t \in Tasks : DispatchInvoke(t))
  /\ WF_vars(\E t \in Tasks : DispatchCleanup(t))

\* a watcher that is started and stopped on a log to which a sibling appends whole
\* records and which siblings shrink with compact and clear; _watch_loop polls again
\* after every sleep
NextShrink ==
  \/ Subscribe("x", 0, FALSE, "none", FALSE, FALSE)
  \/ start_sync
  \/ stop_sync
  \/ check_file_read
  \/ \E t \in Tasks : check_file_deliver(t)
  \/ check_file_return
  \/ \E c \in SiblingEmits : Room /\ sibling_write(c)
  \/ sibling_compact(1)
  \/ sibling_clear
  \/ \E t \in Tasks : DispatchInvoke(t)
  \/ \E t \in Tasks : DispatchCleanup(t)

InitShrink == Init /\ persistence = TRUE /\ error_callback = FALSE

SpecShrink ==
  /\ InitShrink
  /\ [][NextShrink]_vars
  /\ WF_vars(check_file_read)
  /\ WF_vars(\E t \in Tasks : check_file_deliver(t))
  /\ WF_vars(check_file_return)
  /\ WF_vars(\E t \in Tasks : DispatchInvoke(t))
  /\ WF_vars(\E t \in Tasks : DispatchCleanup(t))

\* one process that appends to the log and compacts it, while a sibling appends whole
\* lines to the same file at any moment, also between the two halves of compact
NextCompact ==
  \/ store.op # "compacting" /\ store_append(0)
  \/ store.op # "compacting" /\ store_compact_keep
  \/ store_compact_read
  \/ store_compact_write
  \/ \E c \in SiblingEmits : sibling_append(c)

InitCompact ==
  /\ InitBus
  /\ persistence = FALSE
  /\ error_callback = FALSE
  /\ store \in {NewStore(m, TRUE) : m \in 1..MaxKept}

SpecCompact == InitCompact /\ [][NextCompact]_vars

\* the registry under subscribe, unsubscribe, clear and emits that consume one-time
\* handlers
NextCount ==
  \/ \E n \in EventNames \cup {WILDCARD}, p \in {0, 1}, o \in BOOLEAN :
        Subscribe(n, p, o, "none", FALSE, FALSE)
  \/ \E id \in 1..(MaxHandlers + 1) : Unsubscribe(id)
  \/ clear_handlers
  \/ \E t \in Tasks : Registered # {} /\ emit_sync(t, "x", 0)
  \/ \E t \in Tasks : DispatchInvoke(t)
  \/ \E t \in Tasks : DispatchCleanup(t)

InitCount == Init /\ persistence = FALSE /\ error_callback = FALSE

SpecCount == InitCount /\ [][NextCount]_vars

\* the calls whose outcome the caller sees: get_history, start_sync without a log
\* path, and emits, of strings and of events that bring an origin along, with a log
\* whose append may fail and without a log
NextCalls ==
  \/ Subscribe("x", 0, FALSE, "none", FALSE, FALSE)
  \/ \E t \in Tasks, e \in {<<"x", "">>, <<"y", "">>, <<"x", OtherId>>} :
        emit_sync_event(t, [event_type |-> e[1], v |-> 0, source_process |-> e[2]])
  \/ \E t \in Tasks, o \in {"", OtherId} :
        emit_async_event(t, [event_type |-> "x", v |-> 0, source_process |-> o])
  \/ \E w \in {0, 1, 3} : emit_raise("x", 0, w)
  \/ \E n \in {"x", NoName}, l \in {0, 1} : get_history(n, TRUE, l)
  \/ get_history(NoName, FALSE, 0)
  \/ start_sync_raise
  \/ \E t \in Tasks : DispatchInvoke(t)
  \/ \E t \in Tasks : DispatchCleanup(t)

InitCalls == Init /\ error_callback = FALSE

SpecCalls == InitCalls /\ [][NextCalls]_vars

\* a bus with a log file used as a context manager, once or several times, with emits
\* that return and emits that raise inside the scope, on a log that a sibling appends
\* records and bytes that are no text to
NextScope ==
  \/ enter
  \/ enter_raise
  \/ exit
  \/ \E t \in Tasks : emit_sync(t, "x", 0)
  \/ \E w \in {0, 1} : emit_raise("x", 0, w)
  \/ \E c \in SiblingEmits \cup {<<BadBytes, Newline>>} : sibling_write(c)
  \/ clear_history
  \/ \E t \in Tasks : DispatchCleanup(t)

InitScope == Init /\ persistence = TRUE /\ error_callback = FALSE

SpecScope == InitScope /\ [][NextScope]_vars

\* emit_sync alone, on a bus with a log file, over synchronous and asynchronous
\* handlers of two priorities, one-time or not, with and without a filter
NextSyncOnly ==
  \/ \E p \in {0, 1}, o \in BOOLEAN, f \in {"none", "v1"}, a \in BOOLEAN :
        Subscribe("x", p, o, f, a, FALSE)
  \/ \E t \in Tasks, v \in {0, 1} : emit_sync(t, "x", v)
  \/ \E t \in Tasks : DispatchSkip(t)
  \/ \E t \in Tasks : DispatchInvoke(t)
  \/ \E t \in Tasks : DispatchCleanup(t)

InitSyncOnly == Init /\ persistence = TRUE /\ error_callback = FALSE

SpecSyncOnly == InitSyncOnly /\ [][NextSyncOnly]_vars

\* threads that subscribe, unsubscribe, clear and emit on one bus with a log file,
\* which a sibling process appends to
NextLock ==
  \/ \E th \in Threads, op \in {"subscribe", "clear", "emit"} : thread_call(th, op, 0)
  \/ \E th \in Threads : thread_call(th, "unsubscribe", 1)
  \/ \E th \in Threads : thread_acquire(th)
  \/ \E th \in Threads : thread_history(th)
  \/ \E th \in Threads : thread_persist(th)
  \/ \E th \in Threads : thread_mutate(th)
  \/ \E th \in Threads : thread_remove(th)
  \/ \E th \in Threads : thread_mutated(th)
  \/ \E th \in Threads : thread_release(th)
  \/ \E th \in Threads : thread_dispatch(th)
  \/ \E th \in Threads : thread_return(th)
  \/ \E c \in SiblingEmits :
        Len(file) + 3 * (PendingAppends + 1) <= MaxFileLen /\ sibling_write(c)

InitLock == Init /\ persistence = TRUE /\ error_callback = FALSE

SpecLock == InitLock /\ [][NextLock]_vars

\* ------------------------------------------------------------ properties
\* what a dispatch has done so far
Has(t, e) == \E i \in 1..Len(task[t].log) : task[t].log[i] = e
Pos(t, e) == CHOOSE i \in 1..Len(task[t].log) : task[t].log[i] = e
Calls(t) == {i \in 1..Len(task[t].log) : task[t].log[i].ph = "call"}
EntryOf(t, id) == task[t].hs[IndexOfId(task[t].hs, id)]
Passed(t) == {k \in 1..Len(task[t].hs) : k < task[t].idx}
Marked(t) == {task[t].rm[k] : k \in 1..Len(task[t].rm)}
ErrorCallsFor(t, id) ==
  {i \in 1..Len(task[t].errs) : task[t].errs[i] = [h |-> id, ev |-> task[t].ev.id]}

\* C1: in an emit_async, a handler of higher priority has returned (an asynchronous
\* one has been awaited to its end) before a handler of lower priority is called.
C1_PriorityOrder ==
  \A t \in Tasks : task[t].kind = "async" =>
    \A a, b \in 1..Len(task[t].hs) :
      (task[t].hs[a].priority > task[t].hs[b].priority /\ Has(t, Call(task[t].hs[b].id)))
        => /\ Has(t, Return(task[t].hs[a].id))
           /\ Pos(t, Return(task[t].hs[a].id)) < Pos(t, Call(task[t].hs[b].id))

\* an emit_async has run an asynchronous handler of higher priority that was
\* subscribed after the handler of lower priority it ran next
C1_Witness ==
  \E t \in Tasks :
    /\ task[t].kind = "async" /\ task[t].pc = "done"
    /\ Len(task[t].hs) = 2 /\ Len(task[t].log) = 4
    /\ task[t].hs[1].priority > task[t].hs[2].priority
    /\ task[t].hs[1].id > task[t].hs[2].id
    /\ task[t].hs[1].isAsync

\* C2, as stated: of two handlers of equal priority that are invoked for an event, the
\* one subscribed earlier is invoked first, under the event's name or under "*".
C2_RegistrationOrder ==
  \A t \in Tasks : \A i, j \in Calls(t) :
    (i < j /\ EntryOf(t, task[t].log[i].h).priority = EntryOf(t, task[t].log[j].h).priority)
      => task[t].log[i].h < task[t].log[j].h

\* C2, as the code has it: of two handlers of equal priority, both under the event's
\* name or both under "*", the one subscribed earlier is invoked first; a handler under
\* the event's name is invoked before a handler of equal priority under "*".
C2_StableWithinList ==
  \A t \in Tasks : \A i, j \in Calls(t) :
    LET a == EntryOf(t, task[t].log[i].h)
        b == EntryOf(t, task[t].log[j].h)
    IN  (i < j /\ a.priority = b.priority)
          => /\ ((a.event_type = WILDCARD) = (b.event_type = WILDCARD)) => a.id < b.id
             /\ ~(a.event_type = WILDCARD /\ b.event_type # WILDCARD)

\* a dispatch has invoked two handlers of equal priority of one list, the list sorted
\* again after the second was appended
C2_Witness ==
  \E t \in Tasks :
    /\ task[t].pc = "done"
    /\ Len(task[t].hs) = 2 /\ Cardinality(Calls(t)) = 2
    /\ task[t].hs[1].priority = task[t].hs[2].priority
    /\ task[t].hs[1].event_type = task[t].hs[2].event_type
    /\ task[t].hs[1].id < task[t].hs[2].id

\* C3: over emits that follow one another, a one-time handler is invoked at most once,
\* and it is no longer registered when the emit that invoked it has returned.
C3_OnceAtMostOnce ==
  /\ \A t, u \in Tasks : \A i \in Calls(t), j \in Calls(u) :
       (task[t].log[i].h = task[u].log[j].h /\ EntryOf(t, task[t].log[i].h).once)
         => (t = u /\ i = j)
  /\ \A t \in Tasks : \A i \in Calls(t) :
       (task[t].pc = "done" /\ EntryOf(t, task[t].log[i].h).once)
         => task[t].log[i].h \notin Registered

\* C4: when emit_async calls interleave at the awaits of asynchronous handlers, and
\* none of them is ended by an exception, a one-time handler is invoked at most once.
C4_OnceUnderInterleaving ==
  (\A t \in Tasks : task[t].kind \in {"", "async"} /\ task[t].pc # "failed")
    => \A t, u \in Tasks : \A i \in Calls(t), j \in Calls(u) :
         (task[t].log[i].h = task[u].log[j].h /\ EntryOf(t, task[t].log[i].h).once)
           => t = u

\* C5: a one-time handler whose filter returns false for the event is neither invoked
\* nor marked for removal by that dispatch; a handler that was never invoked is still
\* registered, and a dispatch invokes every handler it resolved whose filter accepts.
C5_RejectedOnceKept ==
  /\ \A t \in Tasks : \A k \in Passed(t) :
       (task[t].hs[k].once /\ FilterRejects(task[t].hs[k], task[t].ev))
         => /\ ~Has(t, Call(task[t].hs[k].id))
            /\ task[t].hs[k].id \notin Marked(t)
  /\ \A id \in 1..(nextId - 1) :
       (\A t \in Tasks : ~Has(t, Call(id))) => id \in Registered
  /\ \A t \in Tasks : \A k \in Passed(t) :
       (~SkippedAsAsync(task[t].kind, task[t].hs[k])
          /\ FilterAccepts(task[t].hs[k], task[t].ev))
         => Has(t, Call(task[t].hs[k].id))

\* a one-time handler was passed over by an emit its filter rejected, then invoked by a
\* later emit its filter accepted, and removed
C5_Witness ==
  \E t, u \in Tasks : \E k \in 1..Len(task[t].hs) :
    /\ t < u /\ task[t].pc = "done" /\ task[u].pc = "done"
    /\ task[t].hs[k].once /\ task[t].hs[k].filt = "v1"
    /\ FilterRejects(task[t].hs[k], task[t].ev)
    /\ ~Has(t, Call(task[t].hs[k].id))
    /\ Has(u, Call(task[t].hs[k].id))
    /\ task[t].hs[k].id \notin Registered

\* C6: on every dispatch path, a handler is marked for removal only if its callback
\* was called in that dispatch.
C6_RemovedOnlyIfInvoked ==
  \A t \in Tasks : \A id \in Marked(t) : Has(t, Call(id))

\* C7: a handler that raises does not end the emit; every handler the emit has come
\* to was invoked, also those behind the one that raised; the error callback was
\* called once for each fault, with that event and that handler, and never otherwise.
C7_FaultIsolated ==
  \A t \in Tasks :
    /\ task[t].pc # "failed"
    /\ \A k \in Passed(t) :
         ~SkippedAsAsync(task[t].kind, task[t].hs[k])
           => /\ Has(t, Call(task[t].hs[k].id))
              /\ Cardinality(ErrorCallsFor(t, task[t].hs[k].id)) =
                   (IF task[t].hs[k].raises /\ error_callback THEN 1 ELSE 0)
    /\ \A i \in 1..Len(task[t].errs) : \E k \in Passed(t) :
         task[t].errs[i] = [h |-> task[t].hs[k].id, ev |-> task[t].ev.id]

\* an emit has returned after its first handler raised: the second was invoked and the
\* error callback was called once
C7_Witness ==
  \E t \in Tasks :
    /\ task[t].pc = "done" /\ error_callback
    /\ Len(task[t].hs) = 2
    /\ task[t].hs[1].raises /\ ~task[t].hs[2].raises
    /\ Has(t, Return(task[t].hs[2].id))
    /\ Len(task[t].errs) = 1

\* C8: unsubscribe with an id that is not registered (never issued, or removed before)
\* returns false and leaves every per-name list and the wildcard list as they were.
C8_UnknownIdNoEffect ==
  [][\A id \in 1..(MaxHandlers + 1) :
       (Unsubscribe(id) /\ id \notin Registered)
         => /\ ret'.value = FALSE
            /\ handlers' = handlers
            /\ wildcard_handlers' = wildcard_handlers]_vars

\* unsubscribe was called with an id that had been removed before, while another
\* handler was registered under "*"
C8_Witness ==
  /\ ret.id # 0 /\ ret.value = FALSE
  /\ ret.id < nextId
  /\ ret.id \notin Registered
  /\ wildcard_handlers # <<>>

\* C9: the history never holds more than history_limit records, and it is the last
\* history_limit records that were appended to it, in the order of their appends.
C9_HistoryBounded ==
  /\ Len(history) <= HistoryLimit
  /\ history = LastN(recorded, HistoryLimit)

\* records of an emit, of an external event and of a load have overflowed the history
C9_Witness ==
  /\ Len(recorded) > HistoryLimit
  /\ history[1] # recorded[1]
  /\ log_open
  /\ \E t \in Tasks : task[t].kind = "ext"
  /\ \E t \in Tasks : task[t].kind \in {"async", "sync"}

\* C10: no record the watcher has handed to its callback carries this process's id.
C10_NoOwnRecords ==
  \A i \in 1..Len(delivered) : delivered[i].source_process # ProcessId

\* a poll cycle that has handed a record to the callback comes to a record of this
\* process in the region it read
C10_Witness ==
  /\ cur = Watcher
  /\ delivered # <<>>
  /\ wq # <<>> /\ Head(wq) # <<>>
  /\ Loads(Head(wq)).ok = "dict"
  /\ Loads(Head(wq)).value.source_process = ProcessId

\* the watcher runs and has still to read the record with this id, written by the sibling
Unread(id) ==
  /\ watcher.running
  /\ \E i \in (watcher.position + 1)..Len(file) :
       file[i].k = "head" /\ file[i].r.id = id /\ file[i].r.source_process = OtherId

\* a dispatch of the record with this id has invoked every handler registered for it
Handled(id, kind) ==
  \E t \in Tasks :
    /\ task[t].ev.id = id /\ task[t].kind = kind /\ task[t].pc = "done"
    /\ \A k \in 1..Len(task[t].hs) : Has(t, Call(task[t].hs[k].id))

UnreadWhole ==
  /\ file_exists
  /\ \E i \in (watcher.position + 1)..(Len(file) - 2) :
       /\ file[i].k = "head" /\ file[i].r.source_process = OtherId
       /\ file[i + 1] = TailOf(file[i].r) /\ file[i + 2] = Newline

\* C12: while the watcher is stopped its callback is not invoked, whatever the file
\* holds; a stop finds no poll cycle half-way and leaves none behind.
C12_NoDeliveryAfterStop ==
  /\ [][(~watcher.running /\ ~watcher'.running) => delivered' = delivered]_vars
  /\ [](~watcher.running => (cur # Watcher /\ wq = <<>>))

\* a watcher that has delivered is stopped, and a whole record of the sibling is in the
\* file behind its offset
C12_Witness ==
  /\ ~watcher.running /\ watcher.op = "stop"
  /\ delivered # <<>>
  /\ UnreadWhole

\* C13: FileWatcher.stop and EventBus.stop_sync on a watcher that is not running leave
\* it not running, with its offset, and start or end no delivery.
C13_StopOfStoppedIsNoOp ==
  [][((watcher_stop \/ stop_sync) /\ ~watcher.running)
       => /\ ~watcher'.running
          /\ watcher'.position = watcher.position
          /\ <<wq, delivered, cur, task, history>>' = <<wq, delivered, cur, task, history>>]_vars

\* a stop found the watcher stopped, its offset behind the beginning of the file
C13_Witness ==
  /\ watcher.op = "noop"
  /\ ~watcher.running
  /\ watcher.position > 0

\* C14: a start of a watcher that is not running leaves the offset at the size of the
\* file, 0 when there is no file.
C14_StartAtFileSize ==
  [][(watcher_start \/ start_sync)
       => watcher'.position = (IF file_exists THEN Len(file) ELSE 0)]_vars

\* C15: no record that was in the file when the watcher was started is handed to the
\* callback during that run.
C15_OldRecordsNotDelivered ==
  \A j \in 1..Len(delivered) : delivered[j].id \notin watcher.seen

\* the run found a record of the sibling in the file and has delivered a later one
C15_Witness ==
  /\ delivered # <<>>
  /\ \E i \in 1..Len(file) :
       /\ file[i].k = "head" /\ file[i].r.source_process = OtherId
       /\ file[i].r.id \in watcher.seen

\* a poll cycle of the running watcher has raised, and behind what the file held then
\* stands a whole record of the sibling with this id
AppendedAfterRaise(id) ==
  /\ watcher.running
  /\ watcher.mark >= 0
  /\ \E i \in (watcher.mark + 1)..(Len(file) - 2) :
       /\ file[i].k = "head" /\ file[i].r.id = id /\ file[i].r.source_process = OtherId
       /\ file[i + 1] = TailOf(file[i].r) /\ file[i + 2] = Newline

\* C16: a poll cycle that raises leaves the watcher running, and a whole record of the
\* sibling appended after that cycle is handed to the callback by a later cycle.
C16_DeliveredAfterRaise ==
  /\ [](watcher.mark >= 0 => watcher.running)
  /\ \A id \in 1..(MaxFileLen + MaxEmits) :
       AppendedAfterRaise(id) ~> (\E j \in 1..Len(delivered) : delivered[j].id = id)

\* the records of the whole well-formed record lines, in the order of the lines
RECURSIVE ValidOf(_)
ValidOf(lines) ==
  IF lines = <<>> THEN <<>>
  ELSE (IF lines[1] # <<>> /\ Loads(lines[1]).ok = "dict"
        THEN <<Loads(lines[1]).value>> ELSE <<>>) \o ValidOf(Tail(lines))

ValidRecords(f) == ValidOf(SplitLines(f))

\* C17: when the log holds what was given to append and nothing else, at most
\* max_events records, load returns those records in the order of the appends.
C17_RoundTrip ==
  [][(store_load /\ file \o store.buffer = Dumps(store.app)
        /\ Len(store.app) <= store.max_events)
       => (~store'.raised /\ store'.out = store.app)]_vars

\* C18: whatever broken lines stand between the record lines of the file, load raises
\* nothing and returns the records of the whole record lines, in file order (the last
\* max_events of them).
C18_LoadSkipsCorruptLines ==
  [][(store_load /\ file_exists /\ store.max_events > 0)
       => /\ ~store'.raised
          /\ store'.out = LastN(ValidRecords(file), store.max_events)]_vars

\* C19: over a file of whole record lines and broken lines json.loads rejects, with
\* nothing buffered, compact returns N - M and leaves the M last records when N > M,
\* and returns 0 and leaves the file as it is when N <= M.
C19_CompactKeepsLast ==
  [][((store_compact_raise \/ store_compact_keep \/ store_compact_rewrite)
        /\ file_exists /\ Decodes(file) /\ store.buffer = <<>>
        /\ load(file, file_exists, 0) = ValidRecords(file))
       => LET N == Len(ValidRecords(file))
              M == store.max_events
          IN  /\ ~store'.raised
              /\ IF N > M
                 THEN /\ store'.n = N - M
                      /\ Decodes(file')
                      /\ load(file', file_exists', 0) = LastN(ValidRecords(file), M)
                 ELSE store'.n = 0 /\ file' = file]_vars

\* C20: on entry of a bus with a log of record lines and lines json.loads rejects, the
\* history is the last min(history_limit, max_events) records of the log, oldest first.
C20_HistoryOnEntry ==
  [][(enter /\ load(file, file_exists, DefaultMaxEvents) = ValidRecords(file))
       => history' = LastN(LastN(ValidRecords(file), DefaultMaxEvents), HistoryLimit)]_vars

\* the records of this process in a sequence of records
IsOwn(r) == r.source_process = ProcessId

\* C21: the records of this process stand in the log in the order in which they were
\* appended to the history; only the emit that is between its two appends, which
\* holds the lock, has a record in the history that is not yet in the log.
C21_AppendsAtomic ==
  LET inLog == SelectSeq(ValidRecords(file), IsOwn)
      inHistory == SelectSeq(recorded, IsOwn)
  IN  \/ inLog = inHistory
      \/ \E th \in Threads :
           /\ thr[th].pc = "persist" /\ lock = th
           /\ inHistory = Append(inLog, thr[th].ev)

\* an emit is between its two appends while another emit, called before it, waits
\* for the lock
C21_Witness ==
  \E th, u \in Threads :
    /\ thr[th].pc = "persist" /\ thr[u].pc = "lock" /\ thr[u].op = "emit"
    /\ thr[u].ev.id < thr[th].ev.id

\* C22: a thread that is inside a method changing the lists of the registry holds the
\* lock of the bus, so that no two such threads, and no such thread and an emit that
\* is appending to history and log, are at work at the same time.
C22_MutationsUnderLock ==
  \A th \in Threads :
    thr[th].pc = "mutating"
      => /\ lock = th
         /\ \A u \in Threads : u # th => thr[u].pc \notin {"mutating", "held", "persist", "unlock"}

\* C23: emit_sync neither calls nor marks for removal an asynchronous handler, which
\* stays registered; it calls every synchronous handler whose filter accepts, in the
\* order of the priorities; and the event is in the history and in the log.
C23_SyncOnlyDispatch ==
  \A t \in Tasks :
    task[t].kind = "sync"
      => /\ \A k \in Passed(t) :
              IF task[t].hs[k].isAsync
              THEN /\ ~Has(t, Call(task[t].hs[k].id))
                   /\ task[t].hs[k].id \notin Marked(t)
                   /\ task[t].hs[k].id \in Registered
              ELSE FilterAccepts(task[t].hs[k], task[t].ev)
                     => Has(t, Call(task[t].hs[k].id))
         /\ \A i, j \in Calls(t) :
              i < j => EntryOf(t, task[t].log[i].h).priority
                         >= EntryOf(t, task[t].log[j].h).priority
         /\ \E i \in 1..Len(recorded) : recorded[i] = task[t].ev
         /\ \E i \in 1..Len(history) : history[i] = task[t].ev
         /\ \E i \in 1..Len(ValidRecords(file)) : ValidRecords(file)[i] = task[t].ev

\* an emit_sync has returned after passing over a one-time asynchronous handler of the
\* higher priority and calling a synchronous one
C23_Witness ==
  \E t \in Tasks :
    /\ task[t].kind = "sync" /\ task[t].pc = "done"
    /\ Len(task[t].hs) = 2
    /\ task[t].hs[1].isAsync /\ task[t].hs[1].once /\ task[t].hs[1].priority = 1
    /\ task[t].hs[1].id \in Registered
    /\ ~task[t].hs[2].isAsync /\ Has(t, Call(task[t].hs[2].id))

\* the places of the file where a record with this id begins
WrittenAt(id) == {i \in 1..Len(file) : file[i].k = "head" /\ file[i].r.id = id}

\* C24: a delivery of the watcher leaves the log as it is and appends the record to the
\* history of this bus; every event that was emitted or delivered stands in the log
\* once, with the identity of the process that emitted it.
C24_DeliveryNotPersisted ==
  /\ [][\A t \in Tasks :
          check_file_deliver(t)
            => /\ file' = file
               /\ history' = DequeAppend(history, Loads(Head(wq)).value, HistoryLimit)]_vars
  /\ [](\A t \in Tasks :
          task[t].pc # "idle"
            => /\ Cardinality(WrittenAt(task[t].ev.id)) = 1
               /\ \A i \in WrittenAt(task[t].ev.id) : file[i].r = task[t].ev
               /\ task[t].kind = "ext" <=> task[t].ev.source_process # ProcessId)

\* a record of the sibling was delivered and dispatched to a handler, after an emit of
\* this bus; both are in the history
C24_Witness ==
  \E t, u \in Tasks :
    /\ task[t].kind = "ext" /\ task[t].pc = "done" /\ task[t].hs # <<>>
    /\ task[u].kind = "sync" /\ task[u].pc = "done"
    /\ history = <<task[u].ev, task[t].ev>>
    /\ Cardinality(WrittenAt(task[t].ev.id)) = 1

\* C25: get_history returns the records of the buffer with the given name, all of them
\* when no name is given, in the order of the buffer, cut to the last `limit` of them
\* when a limit is given, so that the result has at most `limit` entries; the call
\* leaves the buffer as it is.
C25_GetHistory ==
  [][(result' # result /\ result'.call = "get_history")
       => LET event_type == result'.args[1]
              limited == result'.args[2]
              limit == result'.args[3]
              named == IF event_type = NoName THEN history
                       ELSE SelectSeq(history, LAMBDA e : e.event_type = event_type)
              first == IF Len(named) > limit THEN Len(named) - limit + 1 ELSE 1
          IN  /\ result'.value = IF limited THEN SubSeq(named, first, Len(named)) ELSE named
              /\ limited => Len(result'.value) <= limit
              /\ history' = history]_vars

\* C27: start_sync on a bus without a log path raises a usage error to its caller and
\* changes nothing: no watcher exists and is_syncing is false at all times; a subscribe
\* after it registers its handler, and an emit after it appends its event to the
\* history and goes to the handlers registered for the event's name.
C27_StartSyncWithoutPath ==
  /\ [][start_sync_raise
          => /\ result'.call = "start_sync" /\ result'.raised = "RuntimeError"
             /\ <<regVars, histVars, nextEv, task, cur, fileVars, watchVars>>'
                  = <<regVars, histVars, nextEv, task, cur, fileVars, watchVars>>]_vars
  /\ [](~persistence => ~watcher.obj /\ ~watcher.running /\ file = <<>> /\ ~log_open)
  /\ [][(result.raised = "RuntimeError" /\ nextId' # nextId)
          => Registered' = Registered \cup {nextId}]_vars
  /\ [][(result.raised = "RuntimeError" /\ nextEv' # nextEv)
          => \E t \in Tasks :
               /\ task[t].pc = "idle" /\ task'[t].pc = "run" /\ cur' = t
               /\ task'[t].ev.id = nextEv
               /\ history' = DequeAppend(history, task'[t].ev, HistoryLimit)
               /\ Ids(task'[t].hs) = Ids(handlers[task'[t].ev.event_type])]_vars

\* start_sync has raised on a bus without a log path, and an emit_sync made after it
\* has called a handler
C27_Witness ==
  /\ ~persistence
  /\ result.call = "start_sync" /\ result.raised = "RuntimeError"
  /\ cur \in Tasks
  /\ task[cur].kind = "sync"
  /\ \E id \in Registered : Has(cur, Call(id))

\* the records of the file that carry this id, whole or cut short
HeadsOf(id) == {i \in 1..Len(file) : file[i].k = "head" /\ file[i].r.id = id}

C29_OriginStamped ==
  /\ [][nextEv' # nextEv
          => /\ history'[Len(history')].id = nextEv
             /\ history'[Len(history')].source_process = ProcessId
             /\ \A i \in (Len(file) + 1)..Len(file') :
                  file'[i].k = "head"
                    => file'[i].r.id = nextEv /\ file'[i].r.source_process = ProcessId]_vars
  /\ [](\A i \in 1..Len(history) : history[i].source_process = ProcessId)
  /\ [](\A i \in 1..Len(file) : file[i].k = "head" => file[i].r.source_process = ProcessId)
  /\ []((result.call = "emit" /\ result.raised = "none")
          => /\ result.value[1].event_type = result.args[1].event_type
             /\ result.value[1].source_process = ProcessId)

\* an event whose dictionary view names the sibling as its origin was emitted; its
\* record stands in the history and whole in the log with the identity of this bus
C29_Witness ==
  /\ result.call = "emit" /\ result.raised = "none"
  /\ result.args[1].source_process = OtherId
  /\ \E j \in 1..Len(history) : history[j] = result.value[1]
  /\ \E i \in 1..Len(file) :
       /\ i + 2 <= Len(file)
       /\ SubSeq(file, i, i + 2) = Line(result.value[1])
       /\ file[i].r.source_process = ProcessId
  /\ \E t \in Tasks : task[t].kind = "async" /\ task[t].ev = result.value[1]

\* C26: entering the scope of a bus with a log leaves the handle open, the handle stays
\* open until the scope is left, and it is closed when the scope has been left: by
\* __exit__, after the body has completed or raised, and by an entry whose load raises.
C26_ScopeHandle ==
  /\ [][enter => log_open']_vars
  /\ [][(log_open /\ ~exit) => log_open']_vars
  /\ [][exit => ~log_open']_vars
  /\ [][enter_raise => ~log_open']_vars

\* the calls of this handler in the dispatch of task t
CallsOf(t, id) == {i \in 1..Len(task[t].log) : task[t].log[i] = Call(id)}

\* the handlers of a dispatch that are not one-time and have no filter
Plain(t) == {id \in Ids(task[t].hs) : ~EntryOf(t, id).once /\ EntryOf(t, id).filt = "none"}

\* C30: emit_async calls that run at the same time each carry an event of their own,
\* and each goes to every handler that is registered for the name when it is made; a
\* handler that is not one-time and has no filter is called at most once by each of
\* them, and exactly once by each that has ended: no event is dropped, none is
\* delivered twice.
C30_ConcurrentEmits ==
  /\ [][\A t \in Tasks :
          (task[t].pc = "idle" /\ task'[t].pc # "idle" /\ task'[t].kind = "async")
            => /\ Ids(handlers["x"]) \subseteq Ids(task'[t].hs)
               /\ \A u \in Tasks \ {t} : task[u].pc # "idle" => task[u].ev.id # task'[t].ev.id]_vars
  /\ [](\A t \in Tasks :
          task[t].kind = "async"
            => \A id \in Plain(t) :
                 /\ Cardinality(CallsOf(t, id)) <= 1
                 /\ task[t].pc = "done" => Cardinality(CallsOf(t, id)) = 1
                 /\ id \in Registered)

\* two emit_async calls are in flight at the same time, each waiting for the same
\* asynchronous handler, which it has called once with its own event
C30_Witness ==
  \E t, u \in Tasks :
    /\ t # u
    /\ task[t].kind = "async" /\ task[u].kind = "async"
    /\ task[t].pc = "await" /\ task[u].pc = "await"
    /\ task[t].ev.id # task[u].ev.id
    /\ \E id \in Plain(t) \cap Plain(u) :
         Cardinality(CallsOf(t, id)) = 1 /\ Cardinality(CallsOf(u, id)) = 1

\* C31: an emit takes its handler list once, from the registry as it is when the event
\* has been recorded, and keeps it: a handler of the list that a callback unsubscribes
\* during the emit is still called for the event, a handler subscribed during the emit
\* is not called for it, and an emit made later takes the registry as it is then.
C31_HandlerSnapshot ==
  /\ [][\A t \in Tasks :
          IF task[t].pc = "idle"
          THEN task'[t].pc # "idle"
                 => /\ Ids(task'[t].hs) = Ids(handlers["x"]) \cup Ids(wildcard_handlers)
                    /\ task'[t].log = <<>>
                    /\ history' # <<>> /\ history'[Len(history')] = task'[t].ev
          ELSE task'[t].hs = task[t].hs]_vars
  /\ [](\A t \in Tasks :
          /\ \A i \in Calls(t) : task[t].log[i].h \in Ids(task[t].hs)
          /\ \A id \in Ids(task[t].hs) :
               /\ Cardinality(CallsOf(t, id)) <= 1
               /\ task[t].pc = "done" /\ ~SkippedAsAsync(task[t].kind, EntryOf(t, id))
                    => Cardinality(CallsOf(t, id)) = 1)

\* an emit_sync called a handler that subscribed a second one, which that emit did not
\* call; the next emit_sync has both in its list, its first handler unsubscribed the
\* second, and the second was called all the same
C31_Witness ==
  \E t, u \in Tasks, a, b \in 1..MaxHandlers :
    /\ task[t].kind = "sync" /\ task[t].pc = "done"
    /\ task[t].log = <<Call(a), Return(a), Subscribed(b)>>
    /\ task[u].kind = "sync" /\ task[u].ev.id > task[t].ev.id
    /\ task[u].log = <<Call(a), Return(a), Unsubscribed(b), Call(b), Return(b)>>
    /\ b \notin Registered

\* a step in which the dispatch of task t calls a handler
Invokes(t) == Cardinality(Calls(t))' > Cardinality(Calls(t))

\* the whole line of this record stands in the file
InLog(r) == \E i \in 1..Len(file) : i + 2 <= Len(file) /\ SubSeq(file, i, i + 2) = Line(r)

Delivered(id) == \E i \in 1..Len(delivered) : delivered[i].id = id

\* where the record with this id begins in the file
PlaceOf(id) == CHOOSE i \in 1..Len(file) : file[i].k = "head" /\ file[i].r.id = id

\* C33: while the watcher runs on a log that grows by whole records only, every record
\* of another process that lies beyond the remembered offset is eventually given to the
\* callback, and the callback gets the records in the order in which they stand in the
\* file.
C33_GrowthDelivered ==
  /\ \A id \in 1..(MaxFileLen + MaxEmits) : Unread(id) ~> Delivered(id)
  /\ [](\A i, j \in 1..Len(delivered) :
          i < j => /\ delivered[i].id \in IdsIn(file) /\ delivered[j].id \in IdsIn(file)
                   /\ PlaceOf(delivered[i].id) < PlaceOf(delivered[j].id))

\* two records of the sibling, written between two polls, have been delivered
C33_Witness ==
  /\ watcher.running
  /\ Len(delivered) = 2
  /\ PlaceOf(delivered[2].id) = PlaceOf(delivered[1].id) + 3
  /\ watcher.position = Len(file)

\* the whole records of the sibling that the running watcher has read past, and that
\* were not in the file when it started
ReadPast ==
  {file[i].r.id : i \in {j \in 1..(Len(file) - 2) :
     /\ j + 2 <= watcher.position
     /\ file[j].k = "head" /\ file[j].r.source_process = OtherId
     /\ file[j + 1] = TailOf(file[j].r) /\ file[j + 2] = Newline
     /\ file[j].r.id \notin watcher.seen}}

\* C34: when a poll cycle is over, every well-formed record of the sibling in what it
\* has read has been given to the callback, whatever lines stand before the record
\* and whatever the deliveries before it did.
C34_BadLineSkipsNothing ==
  (watcher.running /\ cur = 0) => \A id \in ReadPast : Delivered(id)

\* the whole line of a record of the sibling with this id stands in the file of the
\* running watcher, and none of it was there when the watcher started
WholeSinceStart(id) ==
  /\ watcher.running
  /\ id \notin watcher.seen
  /\ \E i \in 1..(Len(file) - 2) :
       /\ file[i].k = "head" /\ file[i].r.id = id /\ file[i].r.source_process = OtherId
       /\ file[i + 1] = TailOf(file[i].r) /\ file[i + 2] = Newline

\* C35: a record of the sibling whose line is written in parts while the watcher
\* polls is given to the callback once its line is whole, and no record is given to
\* the callback twice.
C35_PartialLineNotLost ==
  /\ \A id \in 1..(MaxFileLen + MaxEmits) : WholeSinceStart(id) ~> Delivered(id)
  /\ [](\A i, j \in 1..Len(delivered) : delivered[i].id = delivered[j].id => i = j)

\* C36: while a watcher runs its remembered offset never goes down, a poll cycle reads
\* what lies between the offset and the end of the file and nothing before it, and no
\* record is given to the callback twice between a start and the next start.
C36_ReadOnce ==
  /\ [][(watcher.running /\ watcher'.running)
          => /\ watcher'.position >= watcher.position
             /\ watcher'.position # watcher.position
                  => /\ watcher'.position = Len(file)
                     /\ wq' = SplitLines(SubSeq(file, watcher.position + 1, Len(file)))]_vars
  /\ [][wq' # wq => \/ wq # <<>> /\ wq' = Tail(wq)
                    \/ wq = <<>> /\ watcher'.position > watcher.position]_vars
  /\ [](\A i, j \in 1..Len(delivered) : delivered[i] = delivered[j] => i = j)

\* two records were delivered, the file was then compacted to the second of them, and
\* the watcher's offset is beyond the end of the file
C36_Witness ==
  /\ watcher.running /\ cur = 0
  /\ Len(delivered) = 2
  /\ Len(file) < watcher.position
  /\ file = Line(delivered[2])

\* the whole line of the sibling's record with this id stands in the file of the
\* running watcher, was not there at its start, and has not been given to the callback
Waiting(id) ==
  /\ WholeSinceStart(id)
  /\ \A i \in 1..Len(delivered) : delivered[i] # file[PlaceOf(id)].r

\* C37: on a log that siblings shrink with compact and clear while the watcher runs,
\* a whole record of the sibling that stands in the file and has not been delivered is
\* eventually delivered, unless the watcher is stopped or the record is removed before
\* that; no record is delivered twice.
C37_DeliversAfterShrink ==
  /\ \A id \in 1..(MaxFileLen + MaxEmits) : Waiting(id) ~> ~Waiting(id)
  /\ [](\A i, j \in 1..Len(delivered) : i # j => delivered[i].id # delivered[j].id)

\* C38: when compact has returned, on a log to which a sibling appends at any moment,
\* the log holds each of the max_events records appended last; a record appended
\* between compact's read of the file and its rewrite is one of them.
C38_CompactKeepsRecent ==
  (store.op = "compact" /\ ~store.raised)
    => \A id \in 1..(nextEv - 1) : id >= nextEv - store.max_events => id \in IdsIn(file)

\* the emit of this frame has returned to its caller or has ended with an exception
Ended(t) == task[t].pc \in {"done", "failed"}

\* C39: a filter that raises does not end the emit: when the emit is over, every
\* handler of the resolved order that the dispatch path calls and whose filter accepts
\* the event was invoked, and every one-time handler invoked by it is removed.
C39_FilterFaultIsolated ==
  \A t \in Tasks :
    /\ task[t].pc # "failed"
    /\ Ended(t) =>
         \A k \in 1..Len(task[t].hs) :
           ( /\ ~SkippedAsAsync(task[t].kind, task[t].hs[k])
             /\ task[t].hs[k].filt # "raise"
             /\ ~FilterRejects(task[t].hs[k], task[t].ev) )
             => Has(t, Call(task[t].hs[k].id))
    /\ Ended(t) =>
         \A i \in Calls(t) :
           EntryOf(t, task[t].log[i].h).once => task[t].log[i].h \notin Registered

\* the lists of the registry by name, the wildcard list under "*"
Lists ==
  [n \in EventNames \cup {WILDCARD} |->
     IF n = WILDCARD THEN wildcard_handlers ELSE handlers[n]]

\* the registrations that a step takes out of the registry, and those it puts in
Gone == Registered \ Registered'
New == Registered' \ Registered

\* C40: after any subscribe, unsubscribe, clear and emit, no id stands twice in the
\* registry, each registration stands in the list of its name (the wildcard list for
\* "*"), every list is in descending order of priority, and handler_count counts the
\* registrations: a subscribe adds one, and registrations leave only by an unsubscribe
\* that returns True, by clear, or as one-time handlers that an emit has invoked;
\* handler_count(name) is the length of the list of that name.
C40_RegistryInvariants ==
  /\ [](\A n, m \in DOMAIN Lists : \A i \in 1..Len(Lists[n]), j \in 1..Len(Lists[m]) :
          Lists[n][i].id = Lists[m][j].id => (n = m /\ i = j))
  /\ [](\A n \in DOMAIN Lists : \A i \in 1..Len(Lists[n]) : Lists[n][i].event_type = n)
  /\ [](\A n \in DOMAIN Lists : \A i, j \in 1..Len(Lists[n]) :
          i < j => Lists[n][i].priority >= Lists[n][j].priority)
  /\ [](/\ handler_count = Cardinality(Registered)
        /\ Registered \subseteq 1..(nextId - 1)
        /\ \A n \in DOMAIN Lists : handler_count_of(n) = Len(Lists[n])
        /\ handler_count_of("z") = 0)
  /\ [][/\ New = (IF nextId' # nextId THEN {nextId} ELSE {})
        /\ handler_count' = handler_count + Cardinality(New) - Cardinality(Gone)
        /\ (ret' # ret /\ ~ret'.value) => Gone = {}
        /\ Gone # {} =>
             \/ Gone = {ret'.id} /\ ret'.value /\ task' = task
             \/ Registered' = {} /\ task' = task /\ ret' = ret
             \/ \E t \in Tasks :
                  /\ task[t].pc = "run" /\ task'[t].pc = "done"
                  /\ \A g \in Gone : EntryOf(t, g).once /\ Has(t, Call(g))]_vars

\* an emit has invoked and consumed a one-time handler, and a wildcard handler is the
\* one registration left
C40_Witness ==
  /\ handler_count = 1
  /\ Len(wildcard_handlers) = 1
  /\ \E t \in Tasks : /\ task[t].pc = "done"
                      /\ \E i \in Calls(t) : /\ EntryOf(t, task[t].log[i].h).once
                                             /\ task[t].log[i].h \notin Registered

====
